---- MODULE Spec2Model ----
(***************************************************************************)
(* Model of the digit-recognition page script (src/script.js, the variant  *)
(* that starts at line 504: busy flag, Otsu pipeline, camera pipeline).    *)
(*                                                                         *)
(* Spec      : predict() and the handlers that call it, as a state machine *)
(*             over the regions of a frame.                                *)
(* SpecFrame : one call of predict() on every frame of Frames.             *)
(* SpecTile  : the tile normalizers applied to the ROIs of TileRois.       *)
(* SpecPixel : predict(false), through gray -> polarity -> blur -> Otsu -> *)
(*             binarize -> label -> filter, and the Otsu threshold alone,  *)
(*             on the pixel frames of PixelFrames.                         *)
(***************************************************************************)
EXTENDS Integers, Sequences, FiniteSets, TLC

VARIABLES
    model,             \* script.js:519   TRUE when a model is loaded, FALSE for null
    loadPending,       \* a loadModel() call has not settled yet
    isProcessing,      \* script.js:526
    cameraStream,      \* script.js:522   TRUE when a stream is held, FALSE for null
    realtimeInterval,  \* script.js:523   TRUE when it holds a timer handle
    intervals,         \* number of interval timers the browser still runs
    pendingCam,        \* getUserMedia promises not settled yet
    isDrawing,         \* script.js:520
    strokeTimers,      \* setTimeout(predict, 300) callbacks not fired yet
    pendingUpload,     \* uploaded images whose onload has not fired yet
    canvas,            \* the frame a snapshot of video and canvas shows
    runs,              \* predict invocations past the guard and not returned
    ret,               \* value returned by the predict invocation that ended last
    nCalls,            \* number of predict invocations made so far
    inp,               \* the ROI (SpecTile) or pixel frame (SpecPixel) worked on
    out,               \* what the stages computed from it
    phase              \* which stage has been applied

vars == <<model, loadPending, isProcessing, cameraStream, realtimeInterval,
          intervals, pendingCam, isDrawing, strokeTimers, pendingUpload,
          canvas, runs, ret, nCalls, inp, out, phase>>

ctlVars == <<model, loadPending, isProcessing, cameraStream, realtimeInterval,
             intervals, pendingCam, isDrawing, strokeTimers, pendingUpload,
             canvas, runs, ret, nCalls>>

pureVars == <<inp, out, phase>>

----------------------------------------------------------------------------
(* Bounds of the model *)

\* predict invocations in one behaviour
MaxCalls == 3
\* glyphs on one frame
MaxComps == 2
\* callbacks of one kind that may be pending at once
MaxPending == 1
\* canvas.width and canvas.height (set by the page, not by the script)
CanvasW == 96
CanvasH == 64

----------------------------------------------------------------------------
(* Small helpers *)

Max(a, b) == IF a > b THEN a ELSE b
Min(a, b) == IF a < b THEN a ELSE b

\* Math.round(n / d) for d > 0: JavaScript rounds half up, floor(v + 0.5)
RoundDiv(n, d) == (2 * n + d) \div (2 * d)

\* the greatest element of a set of integers
SetMax(S) == CHOOSE m \in S : \A v \in S : v <= m

\* f[lo] + ... + f[hi]
RECURSIVE SumRange(_, _, _)
SumRange(f, lo, hi) ==
    IF lo > hi THEN 0
    ELSE IF lo = hi THEN f[lo]
         ELSE LET mid == (lo + hi) \div 2
              IN  SumRange(f, lo, mid) + SumRange(f, mid + 1, hi)

----------------------------------------------------------------------------
(* Frames.  A frame is the binarized image predict works on, given by the  *)
(* glyphs drawn on it.  A glyph occupies the box (x, y, w, h); its columns *)
(* cutLo .. cutHi-1 are filled in the top `neck` rows only, all other      *)
(* columns are filled over the full height.  Every glyph is 8-connected    *)
(* and glyphs at different positions never touch.                          *)

OneDigit    == [w |-> 12, h |-> 14, cutLo |-> 0, cutHi |-> 0, neck |-> 14]
FusedDigits == [w |-> 16, h |-> 12, cutLo |-> 7, cutHi |-> 9, neck |-> 2]

GlyphKinds ==
    { OneDigit,
      FusedDigits,
      [w |-> 16, h |-> 12, cutLo |-> 0, cutHi |-> 0, neck |-> 12],   \* wide solid smear
      [w |-> 26, h |-> 20, cutLo |-> 0, cutHi |-> 0, neck |-> 20],   \* w = 1.3 h exactly
      [w |-> 5,  h |-> 5,  cutLo |-> 0, cutHi |-> 0, neck |-> 5] }   \* speck

GlyphPositions ==
    { [x |-> 2, y |-> 10], [x |-> 20, y |-> 10], [x |-> 52, y |-> 10],
      [x |-> 20, y |-> 34] }

MakeGlyph(p, k) ==
    [x |-> p.x, y |-> p.y, w |-> k.w, h |-> k.h,
     cutLo |-> k.cutLo, cutHi |-> k.cutHi, neck |-> k.neck]

\* at most MaxComps positions, a glyph of any kind at each
Frames ==
    UNION { { { MakeGlyph(p, kindAt[p]) : p \in P } : kindAt \in [P -> GlyphKinds] } :
            P \in { Q \in SUBSET GlyphPositions : Cardinality(Q) <= MaxComps } }

\* binaryImage.data[Y * canvas.width + X] of the frame
BinaryAt(frame, X, Y) ==
    IF \E g \in frame :
          /\ X >= g.x /\ X < g.x + g.w
          /\ Y >= g.y /\ Y < g.y + g.h
          /\ (X - g.x < g.cutLo \/ X - g.x >= g.cutHi \/ Y - g.y < g.neck)
    THEN 255 ELSE 0

\* The record findConnectedComponents pushes for a glyph.  aspectRatio and
\* solidity are the quotients w / h and area / (w * h); they are kept as the
\* integers they are computed from and compared by cross-multiplication.
GlyphComponent(g) ==
    [x |-> g.x, y |-> g.y, w |-> g.w, h |-> g.h,
     area |-> g.w * g.h - (g.cutHi - g.cutLo) * (g.h - g.neck)]

\* The scan of findConnectedComponents is row-major, so a component is found
\* at its topmost-leftmost pixel, which for a glyph is its corner (x, y).
ScansBefore(g1, g2) == g1.y < g2.y \/ (g1.y = g2.y /\ g1.x < g2.x)

RECURSIVE FrameComponents(_)
FrameComponents(frame) ==
    IF frame = {} THEN << >>
    ELSE LET g == CHOOSE a \in frame : \A b \in frame \ {a} : ScansBefore(a, b)
         IN  << GlyphComponent(g) >> \o FrameComponents(frame \ {g})

----------------------------------------------------------------------------
(* Region filter and ordering *)

\* const border = 8
border == 8

\* the loop body with the solidity test rejecting 0.15 itself, for comparison
PassesFilter_SolidityAbove(comp, isRealtime, width, height) ==
    LET MIN_AREA == IF isRealtime THEN 500 ELSE 150
    IN  /\ ~(comp.area < MIN_AREA)
        /\ ~(2 * comp.w > 5 * comp.h \/ 20 * comp.w < 3 * comp.h)
        /\ ~(20 * comp.area <= 3 * comp.w * comp.h)
        /\ ~( /\ \/ comp.x < border
                 \/ comp.y < border
                 \/ comp.x + comp.w > width - border
                 \/ comp.y + comp.h > height - border
              /\ comp.area < 1000 )

\* handwriting branch: the loop body of lines 1378-1397, TRUE when comp is pushed
PassesFilter(comp, isRealtime, width, height) ==
    LET MIN_AREA == IF isRealtime THEN 500 ELSE 150
    IN  /\ ~(comp.area < MIN_AREA)
        /\ ~(2 * comp.w > 5 * comp.h \/ 20 * comp.w < 3 * comp.h)
        /\ ~(20 * comp.area < 3 * comp.w * comp.h)
        /\ ~( /\ \/ comp.x < border
                 \/ comp.y < border
                 \/ comp.x + comp.w > width - border
                 \/ comp.y + comp.h > height - border
              /\ comp.area < 1000 )

\* camera branch: the loop body of lines 1268-1287
PassesCameraFilter(comp, width, height) ==
    LET totalPixels == width * height
        \* centerX = x + w / 2 against 0.2 * width and 0.8 * width, times 10
        inHotZone == /\ 5 * (2 * comp.x + comp.w) > 2 * width
                     /\ 5 * (2 * comp.x + comp.w) < 8 * width
                     /\ 5 * (2 * comp.y + comp.h) > 2 * height
                     /\ 5 * (2 * comp.y + comp.h) < 8 * height
        areaOK == 1000 * comp.area > 2 * totalPixels /\ 10 * comp.area < 2 * totalPixels
        aspectRatioOK == 20 * comp.w > comp.h /\ 10 * comp.w < 12 * comp.h
    IN  inHotZone /\ areaOK /\ aspectRatioOK

RECURSIVE FilterSeq(_, _, _, _, _)
FilterSeq(comps, isRealtime, cam, width, height) ==
    IF comps = << >> THEN << >>
    ELSE LET keep == IF cam THEN PassesCameraFilter(Head(comps), width, height)
                            ELSE PassesFilter(Head(comps), isRealtime, width, height)
         IN  (IF keep THEN << Head(comps) >> ELSE << >>)
             \o FilterSeq(Tail(comps), isRealtime, cam, width, height)

\* the comparator (a, b) => a.x - b.x: TRUE when b must move in front of a
ComparatorSwaps(a, b) == a.x - b.x > 0

\* Array.prototype.sort is stable: insert each element behind the elements
\* the comparator does not order after it.
RECURSIVE InsertSorted(_, _)
InsertSorted(sorted, c) ==
    IF sorted = << >> THEN << c >>
    ELSE LET last == sorted[Len(sorted)]
         IN  IF ComparatorSwaps(last, c)
             THEN InsertSorted(SubSeq(sorted, 1, Len(sorted) - 1), c) \o << last >>
             ELSE sorted \o << c >>

\* the regions left in discovery order
SortByX_Unsorted(comps) == comps

RECURSIVE SortByX(_)
SortByX(comps) ==
    IF comps = << >> THEN << >>
    ELSE InsertSorted(SortByX(SubSeq(comps, 1, Len(comps) - 1)), comps[Len(comps)])

\* filteredComponents / foundComponents after the sort
Regions(frame, isRealtime, cam) ==
    SortByX(FilterSeq(FrameComponents(frame), isRealtime, cam, CanvasW, CanvasH))

----------------------------------------------------------------------------
(* Touching-digit split (handwriting branch, lines 1404-1455) *)

\* binaryImage of a frame of glyphs
FrameBinary(frame) ==
    [data   |-> [i \in 0 .. CanvasW * CanvasH - 1 |->
                    BinaryAt(frame, i % CanvasW, i \div CanvasW)],
     width  |-> CanvasW,
     height |-> CanvasH]

\* roiData of lines 1405-1420, indexed from 0 as in the code
RoiData(binaryImage, comp) ==
    [data   |-> [i \in 0 .. comp.w * comp.h - 1 |->
                    binaryImage.data[(comp.y + (i \div comp.w)) * binaryImage.width
                                     + comp.x + (i % comp.w)]],
     width  |-> comp.w,
     height |-> comp.h]

\* a split rule without the factor 1.3
IsSplit_Loose(comp) == comp.w > comp.h

\* comp.w > comp.h * 1.3
IsSplit(comp) == 10 * comp.w > 13 * comp.h

\* projection[x]: foreground pixels of column x of the ROI
Projection(roiData, comp) ==
    [x \in 0 .. comp.w - 1 |->
        Cardinality({ y \in 0 .. comp.h - 1 : roiData.data[y * comp.w + x] = 255 })]

\* the loop with projection[x] <= minVal, for comparison
RECURSIVE SplitScan_LastMinimum(_, _, _, _, _)
SplitScan_LastMinimum(projection, x, end, minVal, splitX) ==
    IF x >= end THEN splitX
    ELSE IF projection[x] <= minVal
         THEN SplitScan_LastMinimum(projection, x + 1, end, projection[x], x)
         ELSE SplitScan_LastMinimum(projection, x + 1, end, minVal, splitX)

\* the loop of lines 1441-1446 from column x on, with the minimum so far
RECURSIVE SplitScan(_, _, _, _, _)
SplitScan(projection, x, end, minVal, splitX) ==
    IF x >= end THEN splitX
    ELSE IF projection[x] < minVal
         THEN SplitScan(projection, x + 1, end, projection[x], x)
         ELSE SplitScan(projection, x + 1, end, minVal, splitX)

\* Math.floor(comp.w * 0.3) and Math.floor(comp.w * 0.7); the integer forms
\* agree with the floating-point products for every w < 90.
SplitX(roiData, comp) ==
    LET start == (3 * comp.w) \div 10
        end   == (7 * comp.w) \div 10
    IN  SplitScan(Projection(roiData, comp), start, end, comp.h + 1, start)

\* subRegions of lines 1449-1452
SubRegions(roiData, comp) ==
    LET splitX == SplitX(roiData, comp)
    IN  << [x |-> 0, w |-> splitX, h |-> comp.h],
           [x |-> splitX, w |-> comp.w - splitX, h |-> comp.h] >>

\* The tiles the loop body classifies for one region, in order: the
\* sub-regions at least 5 wide of a split region, else the region itself.
\* `whole` tells the ordinary path (which also pushes to validBoxes).
Tiles(roiData, comp, cam) ==
    IF ~cam /\ IsSplit(comp)
    THEN LET subs == SubRegions(roiData, comp)
             kept == SelectSeq(<< 1, 2 >>, LAMBDA k : ~(subs[k].w < 5))
         IN  [j \in 1 .. Len(kept) |->
                [whole |-> FALSE, sub |-> kept[j], x |-> subs[kept[j]].x,
                 w |-> subs[kept[j]].w, h |-> subs[kept[j]].h]]
    ELSE << [whole |-> TRUE, sub |-> 0, x |-> 0, w |-> comp.w, h |-> comp.h] >>


----------------------------------------------------------------------------
(* The classifier (model.predict, prediction.data, argMax): an external    *)
(* capability.  One classification either throws or yields the scores of   *)
(* the ten classes, here in thousandths.                                   *)

Classes == 0 .. 9
Digits  == { 3, 8 }
Confs   == { 500, 800, 930, 1000 }

\* scores with c on the class d and the rest on the other class of Digits
ScoresOf(d, c) ==
    [k \in Classes |-> IF k = d THEN c
                       ELSE IF k \in Digits THEN 1000 - c ELSE 0]

ClassifierResults ==
    { [throws |-> TRUE, scores |-> ScoresOf(0, 0)] }
    \cup { [throws |-> FALSE, scores |-> ScoresOf(d, c)] : d \in Digits, c \in Confs }

\* a classifier that gives the class d the probability 1 on every tile
StubResults(d) == { [throws |-> FALSE, scores |-> [k \in Classes |-> IF k = d THEN 1000 ELSE 0]] }

\* Math.max(...scores)
MathMax(scores) == SetMax({ scores[k] : k \in Classes })

argMax_Least(scores) ==
    CHOOSE k \in Classes :
        /\ \A j \in Classes : scores[j] >= scores[k]
        /\ \A j \in Classes : j < k => scores[j] > scores[k]

\* prediction.argMax(-1).dataSync()[0]: the first index of the greatest score
argMax(scores) ==
    CHOOSE k \in Classes :
        /\ \A j \in Classes : scores[j] <= scores[k]
        /\ \A j \in Classes : j < k => scores[j] < scores[k]

Accepts_AtFloor(cam, conf) == IF cam THEN conf >= 930 ELSE conf >= 800

\* confidence > 0.93 (camera branch) and confidence > 0.8 (handwriting branch)
Accepts(cam, conf) == IF cam THEN conf > 930 ELSE conf > 800

----------------------------------------------------------------------------
(* predict (lines 1200-1599) *)

\* values of ret
NoReturn  == [kind |-> "none", full_digit |-> << >>, details |-> << >>, boxes |-> << >>,
              nTiles |-> 0, nTried |-> 0]
\* `return;` of the guard
Undefined == [NoReturn EXCEPT !.kind = "undefined"]

\* What the stages before the classification loop compute from a snapshot:
\* the sorted regions and, for each, the tiles the loop body classifies.
PlanOf(frame, isRealtime, cam) ==
    LET regions == Regions(frame, isRealtime, cam)
    IN  [regions |-> regions,
         tiles   |-> [k \in 1 .. Len(regions) |->
                        Tiles(RoiData(FrameBinary(frame), regions[k]), regions[k], cam)]]

\* first region at or after ci the loop classifies a tile of
RECURSIVE NextRegion(_, _)
NextRegion(tiles, ci) ==
    IF ci > Len(tiles) THEN ci
    ELSE IF Len(tiles[ci]) > 0 THEN ci
         ELSE NextRegion(tiles, ci + 1)

RECURSIVE TotalTiles(_, _)
TotalTiles(tiles, ci) ==
    IF ci > Len(tiles) THEN 0
    ELSE Len(tiles[ci]) + TotalTiles(tiles, ci + 1)

Box(comp) == [x |-> comp.x, y |-> comp.y, w |-> comp.w, h |-> comp.h]

\* lines 1584-1589: release the flag, return the lists.  nTiles and nTried
\* are history fields: the tiles of the frame's regions and the tiles whose
\* classification was started.
ReturnResult(finalResult, details, validBoxes, nTiles, nTried) ==
    /\ isProcessing' = FALSE
    /\ ret' = [kind |-> "result", full_digit |-> finalResult, details |-> details,
               boxes |-> validBoxes, nTiles |-> nTiles, nTried |-> nTried]

\* a catch that leaves the busy flag as it is, for comparison
ReturnError_KeepsFlag(nTiles, nTried) ==
    /\ isProcessing' = isProcessing
    /\ ret' = [NoReturn EXCEPT !.kind = "error", !.nTiles = nTiles, !.nTried = nTried]

\* lines 1591-1598: the catch of the single try around the frame
ReturnError(nTiles, nTried) ==
    /\ isProcessing' = FALSE
    /\ ret' = [NoReturn EXCEPT !.kind = "error", !.nTiles = nTiles, !.nTried = nTried]

\* a guard that does not look at the busy flag
GuardDrops_NoBusyFlag == ~model

\* line 1202: if (isProcessing || !model) return;
GuardDrops == isProcessing \/ ~model

\* A call of predict, up to its first await (or to its return when no tile
\* is classified).  plan is what the stages before the loop compute from the
\* snapshot getImageData returns.
predictWith(plan, isRealtime) ==
    /\ nCalls < MaxCalls
    /\ nCalls' = nCalls + 1
    /\ IF GuardDrops
       THEN /\ ret' = Undefined
            /\ UNCHANGED << isProcessing, runs >>
       ELSE LET cam == isRealtime /\ cameraStream
                ci  == NextRegion(plan.tiles, 1)
            IN  IF ci > Len(plan.regions)
                THEN /\ ReturnResult(<< >>, << >>, << >>, 0, 0)
                     /\ UNCHANGED runs
                ELSE /\ isProcessing' = TRUE
                     /\ ret' = NoReturn
                     /\ runs' = Append(runs,
                           [isRealtime |-> isRealtime, cam |-> cam,
                            regions |-> plan.regions, tiles |-> plan.tiles,
                            ci |-> ci, ti |-> 1,
                            finalResult |-> << >>, details |-> << >>,
                            validBoxes |-> << >>,
                            nTiles |-> TotalTiles(plan.tiles, 1), nTried |-> 0])

\* predict on a frame of glyphs
predictOn(snapshot, isRealtime) ==
    predictWith(PlanOf(snapshot, isRealtime, isRealtime /\ cameraStream), isRealtime)

predict(isRealtime) == predictOn(canvas, isRealtime)

RemoveAt(seq, i) == SubSeq(seq, 1, i - 1) \o SubSeq(seq, i + 1, Len(seq))

\* The classification the run awaits settles, and the run goes on to its
\* next await or to its return.  `from` and `sub` in a details entry are
\* history fields: the box of the region and the sub-region (0 for a whole
\* region) the label was classified from.
ClassifyResult(i, res) ==
    LET r        == runs[i]
        comp     == r.regions[r.ci]
        tiles    == r.tiles[r.ci]
        tile     == tiles[r.ti]
        digit    == argMax(res.scores)
        confidence == MathMax(res.scores)
        accepted == Accepts(r.cam, confidence)
        finalResult == IF accepted THEN Append(r.finalResult, digit)
                       ELSE r.finalResult
        details  == IF accepted
                    THEN Append(r.details, [digit |-> digit, conf |-> confidence,
                                            from |-> Box(comp), sub |-> tile.sub])
                    ELSE r.details
        validBoxes == IF accepted /\ tile.whole
                      THEN Append(r.validBoxes, Box(comp))
                      ELSE r.validBoxes
        ci2      == IF r.ti < Len(tiles) THEN r.ci
                    ELSE NextRegion(r.tiles, r.ci + 1)
        ti2      == IF r.ti < Len(tiles) THEN r.ti + 1 ELSE 1
    IN  /\ IF res.throws
           THEN /\ ReturnError(r.nTiles, r.nTried + 1)
                /\ runs' = RemoveAt(runs, i)
           ELSE IF ci2 > Len(r.regions)
                THEN /\ ReturnResult(finalResult, details, validBoxes,
                                     r.nTiles, r.nTried + 1)
                     /\ runs' = RemoveAt(runs, i)
                ELSE /\ runs' = [runs EXCEPT ![i] =
                                   [r EXCEPT !.ci = ci2, !.ti = ti2,
                                             !.finalResult = finalResult,
                                             !.details = details,
                                             !.validBoxes = validBoxes,
                                             !.nTried = r.nTried + 1]]
                     /\ UNCHANGED << isProcessing, ret >>
        /\ UNCHANGED << model, loadPending, cameraStream, realtimeInterval, intervals,
                        pendingCam, isDrawing, strokeTimers, pendingUpload, canvas, nCalls >>

ClassifyWith(i, results) ==
    /\ i \in 1 .. Len(runs)
    /\ \E res \in results : ClassifyResult(i, res)
    /\ UNCHANGED pureVars

Classify(i) == ClassifyWith(i, ClassifierResults)

\* the same step when the model is the stub whose label inp.stub holds
ClassifyStub(i) == ClassifyWith(i, StubResults(inp.stub))

----------------------------------------------------------------------------
(* The handlers *)

\* Frames of the scheduling specification: at most one glyph, in the middle
SmallFrames ==
    { {} } \cup { { MakeGlyph([x |-> 20, y |-> 10], k) } : k \in { OneDigit, FusedDigits } }

\* loadModel (lines 610-682) settles: model = await tf.loadLayersModel(...)
LoadModelResolve ==
    /\ loadPending
    /\ loadPending' = FALSE
    /\ model' = TRUE
    /\ UNCHANGED << isProcessing, cameraStream, realtimeInterval, intervals, pendingCam,
                    isDrawing, strokeTimers, pendingUpload, canvas, runs, ret, nCalls >>
    /\ UNCHANGED pureVars

\* loadModel fails: the catch leaves model as it was
LoadModelReject ==
    /\ loadPending
    /\ loadPending' = FALSE
    /\ UNCHANGED << model, isProcessing, cameraStream, realtimeInterval, intervals,
                    pendingCam, isDrawing, strokeTimers, pendingUpload, canvas, runs,
                    ret, nCalls >>
    /\ UNCHANGED pureVars

\* stopCamera (lines 1718-1739); init() at its end starts loadModel again
stopCamera ==
    /\ cameraStream' = FALSE
    /\ IF realtimeInterval
       THEN intervals' = intervals - 1 /\ realtimeInterval' = FALSE
       ELSE UNCHANGED << intervals, realtimeInterval >>
    /\ loadPending' = TRUE

\* toggleCamera up to its await (lines 1677-1691)
ToggleCamera ==
    /\ IF cameraStream
       THEN stopCamera /\ UNCHANGED pendingCam
       ELSE /\ pendingCam < MaxPending
            /\ pendingCam' = pendingCam + 1
            /\ UNCHANGED << cameraStream, realtimeInterval, intervals, loadPending >>
    /\ UNCHANGED << model, isProcessing, isDrawing, strokeTimers, pendingUpload,
                    canvas, runs, ret, nCalls >>
    /\ UNCHANGED pureVars

\* toggleCamera after getUserMedia resolved (lines 1693-1709); from now on a
\* snapshot shows the video
GetUserMediaResolve ==
    /\ pendingCam > 0
    /\ intervals < MaxPending
    /\ pendingCam' = pendingCam - 1
    /\ cameraStream' = TRUE
    /\ realtimeInterval' = TRUE
    /\ intervals' = intervals + 1
    /\ canvas' \in SmallFrames
    /\ UNCHANGED << model, loadPending, isProcessing, isDrawing, strokeTimers,
                    pendingUpload, runs, ret, nCalls >>
    /\ UNCHANGED pureVars

\* toggleCamera after getUserMedia rejected (lines 1711-1714)
GetUserMediaReject ==
    /\ pendingCam > 0
    /\ pendingCam' = pendingCam - 1
    /\ UNCHANGED << model, loadPending, isProcessing, cameraStream, realtimeInterval,
                    intervals, isDrawing, strokeTimers, pendingUpload, canvas,
                    runs, ret, nCalls >>
    /\ UNCHANGED pureVars

\* the interval callback of line 1703
Tick ==
    /\ intervals > 0
    /\ predict(TRUE)
    /\ UNCHANGED << model, loadPending, cameraStream, realtimeInterval, intervals,
                    pendingCam, isDrawing, strokeTimers, pendingUpload, canvas >>
    /\ UNCHANGED pureVars

\* the click handler of .btn-run (line 2084)
RunButton ==
    /\ predict(FALSE)
    /\ UNCHANGED << model, loadPending, cameraStream, realtimeInterval, intervals,
                    pendingCam, isDrawing, strokeTimers, pendingUpload, canvas >>
    /\ UNCHANGED pureVars

\* recognition.onresult with a recognize command (line 1889)
VoiceCommand ==
    /\ predict(FALSE)
    /\ UNCHANGED << model, loadPending, cameraStream, realtimeInterval, intervals,
                    pendingCam, isDrawing, strokeTimers, pendingUpload, canvas >>
    /\ UNCHANGED pureVars

\* startDrawing (lines 2011-2021)
StartDrawing ==
    /\ ~isDrawing
    /\ isDrawing' = TRUE
    /\ UNCHANGED << model, loadPending, isProcessing, cameraStream, realtimeInterval,
                    intervals, pendingCam, strokeTimers, pendingUpload, canvas,
                    runs, ret, nCalls >>
    /\ UNCHANGED pureVars

\* stopDrawing (lines 2040-2048)
StopDrawing ==
    /\ isDrawing
    /\ isDrawing' = FALSE
    /\ IF ~cameraStream
       THEN strokeTimers < MaxPending /\ strokeTimers' = strokeTimers + 1
       ELSE UNCHANGED strokeTimers
    /\ UNCHANGED << model, loadPending, isProcessing, cameraStream, realtimeInterval,
                    intervals, pendingCam, pendingUpload, canvas, runs, ret, nCalls >>
    /\ UNCHANGED pureVars

\* the timeout callback of line 2045
StrokeTimerFire ==
    /\ strokeTimers > 0
    /\ strokeTimers' = strokeTimers - 1
    /\ predict(FALSE)
    /\ UNCHANGED << model, loadPending, cameraStream, realtimeInterval, intervals,
                    pendingCam, isDrawing, pendingUpload, canvas >>
    /\ UNCHANGED pureVars

\* handleFile up to reader.readAsDataURL (lines 1750-1781)
HandleFile ==
    /\ pendingUpload < MaxPending
    /\ pendingUpload' = pendingUpload + 1
    /\ IF cameraStream
       THEN stopCamera
       ELSE UNCHANGED << cameraStream, realtimeInterval, intervals, loadPending >>
    /\ UNCHANGED << model, isProcessing, pendingCam, isDrawing, strokeTimers,
                    canvas, runs, ret, nCalls >>
    /\ UNCHANGED pureVars

\* img.onload of lines 1760-1778: clearCanvas, drawImage, predict(false)
ImgOnload ==
    /\ pendingUpload > 0
    /\ pendingUpload' = pendingUpload - 1
    /\ \E image \in SmallFrames :
         /\ canvas' = image
         /\ predictOn(image, FALSE)
    /\ UNCHANGED << model, loadPending, cameraStream, realtimeInterval, intervals,
                    pendingCam, isDrawing, strokeTimers >>
    /\ UNCHANGED pureVars

NoPure == [kind |-> "none"]

PureIdle ==
    /\ inp = NoPure
    /\ out = NoPure
    /\ phase = "none"

\* the page after DOMContentLoaded: init() has started loadModel
Init ==
    /\ model = FALSE
    /\ loadPending = TRUE
    /\ isProcessing = FALSE
    /\ cameraStream = FALSE
    /\ realtimeInterval = FALSE
    /\ intervals = 0
    /\ pendingCam = 0
    /\ isDrawing = FALSE
    /\ strokeTimers = 0
    /\ pendingUpload = 0
    /\ canvas \in SmallFrames
    /\ runs = << >>
    /\ ret = NoReturn
    /\ nCalls = 0
    /\ PureIdle

Next ==
    \/ LoadModelResolve
    \/ LoadModelReject
    \/ ToggleCamera
    \/ GetUserMediaResolve
    \/ GetUserMediaReject
    \/ Tick
    \/ RunButton
    \/ VoiceCommand
    \/ StartDrawing
    \/ StopDrawing
    \/ StrokeTimerFire
    \/ HandleFile
    \/ ImgOnload
    \/ \E i \in 1 .. Len(runs) : Classify(i)

Spec == Init /\ [][Next]_vars

\* One frame through predict: the model is loaded, the camera is off or on
\* (with its interval timer), the canvas shows any frame, and only the run
\* button, the interval callback and the classifier act, for one call.
InitFrame ==
    /\ model = TRUE
    /\ loadPending = FALSE
    /\ isProcessing = FALSE
    /\ cameraStream \in BOOLEAN
    /\ realtimeInterval = cameraStream
    /\ intervals = IF cameraStream THEN 1 ELSE 0
    /\ pendingCam = 0
    /\ isDrawing = FALSE
    /\ strokeTimers = 0
    /\ pendingUpload = 0
    /\ canvas \in Frames
    /\ runs = << >>
    /\ ret = NoReturn
    /\ nCalls = MaxCalls - 1
    /\ PureIdle

NextFrame ==
    \/ Tick
    \/ RunButton
    \/ \E i \in 1 .. Len(runs) : Classify(i)

SpecFrame == InitFrame /\ [][NextFrame]_vars

----------------------------------------------------------------------------
(* Tile normalizers.  Arrays are functions on 0 .. n-1, as in the code.    *)
(* A ROI is given by its shape: the pixel (x, y) is foreground when y is   *)
(* in rows, or x is in cols, or (x, y) lies in the box x0..x1 x y0..y1.    *)

\* const targetSize = 28
targetSize == 28

\* ROIs up to MaxRoi x MaxRoi are enumerated with every filled rectangle
MaxRoi == 3

Foreground(roi, x, y) ==
    \/ y \in roi.rows
    \/ x \in roi.cols
    \/ (x >= roi.x0 /\ x <= roi.x1 /\ y >= roi.y0 /\ y <= roi.y1)

HasForeground(roi) ==
    \E x \in 0 .. roi.width - 1, y \in 0 .. roi.height - 1 : Foreground(roi, x, y)

\* roiData / subData: { data, width, height } cut from the binary image
RoiImage(roi) ==
    [data   |-> [i \in 0 .. roi.width * roi.height - 1 |->
                    IF Foreground(roi, i % roi.width, i \div roi.width) THEN 255 ELSE 0],
     width  |-> roi.width,
     height |-> roi.height]

SmallRois ==
    { [width |-> w, height |-> h, rows |-> {}, cols |-> {},
       x0 |-> a, x1 |-> b, y0 |-> c, y1 |-> d] :
      w \in 1 .. MaxRoi, h \in 1 .. MaxRoi,
      a \in 0 .. MaxRoi - 1, b \in 0 .. MaxRoi - 1,
      c \in 0 .. MaxRoi - 1, d \in 0 .. MaxRoi - 1 }

\* ROIs of components that pass the region filter, and the two halves of one
GlyphRois ==
    { \* one digit, 12 x 14 solid
      [width |-> 12, height |-> 14, rows |-> {}, cols |-> {},
       x0 |-> 0, x1 |-> 11, y0 |-> 0, y1 |-> 13],
      \* two fused digits, 16 x 12, joined by a bridge in the top two rows
      [width |-> 16, height |-> 12, rows |-> {0, 1}, cols |-> (0 .. 6) \cup (9 .. 15),
       x0 |-> 0, x1 |-> -1, y0 |-> 0, y1 |-> -1],
      \* its sub-regions [0, 7) and [7, 16)
      [width |-> 7, height |-> 12, rows |-> {}, cols |-> {},
       x0 |-> 0, x1 |-> 6, y0 |-> 0, y1 |-> 11],
      [width |-> 9, height |-> 12, rows |-> {0, 1}, cols |-> 2 .. 8,
       x0 |-> 0, x1 |-> -1, y0 |-> 0, y1 |-> -1],
      \* a hash grid, 49 x 49: four lines each way, one pixel thick;
      \* area 376, solidity 0.157, aspect ratio 1
      [width |-> 49, height |-> 49, rows |-> {9, 19, 29, 39}, cols |-> {9, 19, 29, 39},
       x0 |-> 0, x1 |-> -1, y0 |-> 0, y1 |-> -1] }

TileRois ==
    { r \in SmallRois : r.x0 <= r.x1 /\ r.x1 < r.width /\ r.y0 <= r.y1 /\ r.y1 < r.height }
    \cup GlyphRois

\* Math.floor(x * (size / 28)) in IEEE doubles.  It equals floor(x * size / 28)
\* except where x * size / 28 is an integer the rounded product falls just
\* below; these are all such cases for size < 250.
FloatDeficit ==
    { << 68, 21 >>, << 122, 14 >>, << 136, 21 >>, << 164, 21 >>, << 230, 14 >>,
      << 244, 7 >>, << 244, 14 >>, << 244, 21 >> }

FloorScale(x, size) ==
    (x * size) \div targetSize - (IF << size, x >> \in FloatDeficit THEN 1 ELSE 0)

\* advancedPreprocess step 1 and 2 (lines 949-979): binarize at 128, then
\* the maximum over the neighbours within halfKernel = 1 inside the ROI
DilatedAt(img, x, y) ==
    SetMax({ 0 } \cup
           { IF img.data[ny * img.width + nx] > 128 THEN 255 ELSE 0 :
               nx \in Max(0, x - 1) .. Min(img.width - 1, x + 1),
               ny \in Max(0, y - 1) .. Min(img.height - 1, y + 1) })

\* const pad = Math.floor(Math.max(height, width) * 0.45)
AdvancedPad(img) == (45 * Max(img.height, img.width)) \div 100

\* step 3 (lines 981-1000): paddedData at (X, Y)
PaddedAt(img, X, Y) ==
    LET pad == AdvancedPad(img)
    IN  IF X >= pad /\ X < pad + img.width /\ Y >= pad /\ Y < pad + img.height
        THEN DilatedAt(img, X - pad, Y - pad)
        ELSE 0

\* step 4 (lines 1002-1017): scaledData, nearest neighbour
ScaledData(img) ==
    LET pad == AdvancedPad(img)
        paddedWidth  == img.width + 2 * pad
        paddedHeight == img.height + 2 * pad
    IN  [i \in 0 .. targetSize * targetSize - 1 |->
            PaddedAt(img, FloorScale(i % targetSize, paddedWidth),
                          FloorScale(i \div targetSize, paddedHeight))]

\* calculateImageMoments (lines 925-943) of a 28 x 28 array, in units of
\* 1/255: m00 = sum of v, m10 = sum of x v, m01 = sum of y v
calculateImageMoments(data) ==
    LET last   == targetSize - 1
        rowSum == [y \in 0 .. last |->
                      SumRange([x \in 0 .. last |-> data[y * targetSize + x]], 0, last)]
        rowMom == [y \in 0 .. last |->
                      SumRange([x \in 0 .. last |-> x * data[y * targetSize + x]], 0, last)]
    IN  [m00 |-> SumRange(rowSum, 0, last),
         m10 |-> SumRange(rowMom, 0, last),
         m01 |-> SumRange([y \in 0 .. last |-> y * rowSum[y]], 0, last)]

\* the correction with Math.floor in place of Math.round, for comparison
CorrectedData_Floor(scaledData, moments) ==
    LET shiftX == (moments.m10 \div moments.m00) - 14
        shiftY == (moments.m01 \div moments.m00) - 14
    IN  [i \in 0 .. targetSize * targetSize - 1 |->
            LET srcX == (i % targetSize) + shiftX
                srcY == (i \div targetSize) + shiftY
            IN  IF srcX >= 0 /\ srcX < targetSize /\ srcY >= 0 /\ srcY < targetSize
                THEN scaledData[srcY * targetSize + srcX]
                ELSE 0]

\* step 5 (lines 1019-1045): srcX = Math.round(x - dx) with dx = 14 - m10/m00,
\* that is x - 14 + round(m10 / m00), and the same for y
CorrectedData(scaledData, moments) ==
    LET shiftX == RoundDiv(moments.m10, moments.m00) - 14
        shiftY == RoundDiv(moments.m01, moments.m00) - 14
    IN  [i \in 0 .. targetSize * targetSize - 1 |->
            LET srcX == (i % targetSize) + shiftX
                srcY == (i \div targetSize) + shiftY
            IN  IF srcX >= 0 /\ srcX < targetSize /\ srcY >= 0 /\ srcY < targetSize
                THEN scaledData[srcY * targetSize + srcX]
                ELSE 0]

\* advancedPreprocess (lines 946-1063).  The Float32Array it returns holds
\* data[i] / 255.0: the tile is kept as numerators over the denominator den.
advancedPreprocess(roiImage) ==
    LET scaledData == ScaledData(roiImage)
        moments    == calculateImageMoments(scaledData)
    IN  IF moments.m00 # 0
        THEN [data |-> CorrectedData(scaledData, moments), den |-> 255]
        ELSE [data |-> scaledData, den |-> 255]

\* pythonStylePreprocess steps 1-5 (lines 1145-1170): squareData at (X, Y).
\* Math.floor(x + offX) is x + floor((size - width) / 2) + pad.
SquareAt(img, X, Y) ==
    LET size == Max(img.width, img.height)
        pad  == (4 * size) \div 10
        x    == X - ((size - img.width) \div 2 + pad)
        y    == Y - ((size - img.height) \div 2 + pad)
    IN  IF x >= 0 /\ x < img.width /\ y >= 0 /\ y < img.height
        THEN img.data[y * img.width + x]
        ELSE 0

\* pythonStylePreprocess (lines 1137-1197): the tile holds
\* (v / 255.0 - 0.1307) / 0.3081 = (10000 v - 1307 * 255) / (3081 * 255)
pythonStylePreprocess(roiBinary) ==
    LET size       == Max(roiBinary.width, roiBinary.height)
        squareSize == size + 2 * ((4 * size) \div 10)
    IN  [data |-> [i \in 0 .. targetSize * targetSize - 1 |->
                      10000 * SquareAt(roiBinary, FloorScale(i % targetSize, squareSize),
                                                  FloorScale(i \div targetSize, squareSize))
                      - 1307 * 255],
         den  |-> 3081 * 255]

\* the tile goes to tf.tensor4d(processedData, [1, 28, 28, 1]) and model.predict
ApplyAdvanced ==
    /\ phase = "roi"
    /\ phase' = "advanced"
    /\ out' = advancedPreprocess(RoiImage(inp))
    /\ UNCHANGED inp
    /\ UNCHANGED ctlVars

ApplyPythonStyle ==
    /\ phase = "roi"
    /\ phase' = "python"
    /\ out' = pythonStylePreprocess(RoiImage(inp))
    /\ UNCHANGED inp
    /\ UNCHANGED ctlVars

----------------------------------------------------------------------------
(* The handwriting branch on pixels (lines 1352-1400).  A frame is given   *)
(* by its shape, as a ROI is, with the gray level bg of its background and *)
(* fg of its foreground; every pixel has R = G = B and alpha 255.          *)

\* frames up to MaxSide x MaxSide are enumerated with every filled rectangle
MaxSide == 3

LevelPairs ==
    { << 0, 255 >>, << 255, 0 >>, << 50, 200 >>, << 200, 50 >>, << 120, 121 >>, << 0, 1 >> }

SmallPixelFrames ==
    { [width |-> w, height |-> h, bg |-> lv[1], fg |-> lv[2], rows |-> {}, cols |-> {},
       x0 |-> a, x1 |-> b, y0 |-> c, y1 |-> d] :
      w \in 1 .. MaxSide, h \in 1 .. MaxSide, lv \in LevelPairs,
      a \in 0 .. MaxSide - 1, b \in 0 .. MaxSide - 1,
      c \in 0 .. MaxSide - 1, d \in 0 .. MaxSide - 1 }

\* frames of one gray level, up to the size at which a component covering
\* the frame passes the region filter (area >= 1000), and a frame of 500
\* pixels at 50 and 500 pixels at 200 in stripes ten columns wide
LargePixelFrames ==
    { [width |-> sz[1], height |-> sz[2], bg |-> v, fg |-> v, rows |-> {}, cols |-> {},
       x0 |-> 0, x1 |-> -1, y0 |-> 0, y1 |-> -1] :
      sz \in { << 1, 1 >>, << 2, 3 >>, << 20, 20 >>, << 32, 32 >>, << 40, 26 >> },
      v \in { 0, 1, 100, 120, 121, 254, 255 } }
    \cup
    { [width |-> 500, height |-> 2, bg |-> lv[1], fg |-> lv[2], rows |-> {},
       cols |-> { x \in 0 .. 499 : x % 20 < 10 },
       x0 |-> 0, x1 |-> -1, y0 |-> 0, y1 |-> -1] :
      lv \in { << 50, 200 >>, << 200, 50 >> } }

\* masks: square frames of side MaskSide with the values 0 and 255 only, one
\* filled rectangle on the other value
MaskSide == 4

MaskFrames ==
    { [width |-> MaskSide, height |-> MaskSide, bg |-> lv[1], fg |-> lv[2],
       rows |-> {}, cols |-> {}, x0 |-> a, x1 |-> b, y0 |-> c, y1 |-> d] :
      lv \in { << 0, 255 >>, << 255, 0 >> },
      a \in 0 .. MaskSide - 1, b \in 0 .. MaskSide - 1,
      c \in 0 .. MaskSide - 1, d \in 0 .. MaskSide - 1 }

PixelFrames ==
    { f \in SmallPixelFrames \cup MaskFrames :
        f.x0 <= f.x1 /\ f.x1 < f.width /\ f.y0 <= f.y1 /\ f.y1 < f.height }
    \cup LargePixelFrames

\* getImageData: RGBA bytes, four per pixel
ImageDataOf(frame) ==
    [data   |-> [k \in 0 .. 4 * frame.width * frame.height - 1 |->
                    IF k % 4 = 3 THEN 255
                    ELSE IF Foreground(frame, (k \div 4) % frame.width,
                                              (k \div 4) \div frame.width)
                         THEN frame.fg ELSE frame.bg],
     width  |-> frame.width,
     height |-> frame.height]

\* imageDataToGrayArray (lines 686-698):
\* Math.round(0.299 * R + 0.587 * G + 0.114 * B)
imageDataToGrayArray(imageData) ==
    [data   |-> [j \in 0 .. imageData.width * imageData.height - 1 |->
                    RoundDiv(299 * imageData.data[4 * j] + 587 * imageData.data[4 * j + 1]
                             + 114 * imageData.data[4 * j + 2], 1000)],
     width  |-> imageData.width,
     height |-> imageData.height]

\* calculateAverageBrightness (lines 701-707) returns sum / length: kept as
\* the pair, and avgBrightness > 120 is sum > 120 * length
calculateAverageBrightness(grayArray) ==
    [sum    |-> SumRange(grayArray.data, 0, grayArray.width * grayArray.height - 1),
     length |-> grayArray.width * grayArray.height]

\* invertBackground (lines 710-716)
invertBackground(grayArray) ==
    [grayArray EXCEPT !.data =
        [i \in 0 .. grayArray.width * grayArray.height - 1 |-> 255 - grayArray.data[i]]]

\* an array is filled once and then read: comparing the data with itself makes
\* the evaluation build it before the first read
Buffered(array) == IF array.data = array.data THEN array ELSE array

\* simpleGaussianBlur (lines 719-755): the kernel [1 2 1; 2 4 2; 1 2 1] / 16
\* with Math.round on the interior, the border pixels copied
simpleGaussianBlur(grayArray) ==
    LET width  == grayArray.width
        height == grayArray.height
        data   == grayArray.data
        kernel(kx, ky) == (2 - (IF kx = 0 THEN 0 ELSE 1)) * (2 - (IF ky = 0 THEN 0 ELSE 1))
    IN  [grayArray EXCEPT !.data =
            [i \in 0 .. width * height - 1 |->
                LET x == i % width
                    y == i \div width
                IN  IF y = 0 \/ y = height - 1 \/ x = 0 \/ x = width - 1
                    THEN data[i]
                    ELSE RoundDiv(
                           SumRange([k \in 0 .. 8 |->
                                       data[(y + (k \div 3) - 1) * width + (x + (k % 3) - 1)]
                                       * kernel((k % 3) - 1, (k \div 3) - 1)], 0, 8),
                           16)]]

\* Natural numbers beyond 32 bits, as sequences of digits in base 4096, least
\* significant first: the variances of line 793 do not fit in 32 bits.
BigOf(n) == << n % 4096, (n \div 4096) % 4096, n \div (4096 * 4096) >>

RECURSIVE BigCarry(_, _, _)
BigCarry(columns, k, carry) ==
    IF k > Len(columns) THEN << >>
    ELSE << (columns[k] + carry) % 4096 >>
         \o BigCarry(columns, k + 1, (columns[k] + carry) \div 4096)

BigTimes(a, b) ==
    BigCarry([k \in 1 .. Len(a) + Len(b) |->
                SumRange([i \in 1 .. Len(a) |->
                            IF k + 1 - i \in 1 .. Len(b) THEN a[i] * b[k + 1 - i] ELSE 0],
                         1, Len(a))],
             1, 0)

\* a > b for two numbers of the same count of digits
RECURSIVE BigGreater(_, _, _)
BigGreater(a, b, k) ==
    IF k = 0 THEN FALSE
    ELSE IF a[k] # b[k] THEN a[k] > b[k]
         ELSE BigGreater(a, b, k - 1)

\* D1^2 / den1 > D2^2 / den2, as D1^2 * den2 > D2^2 * den1
SquareOverGreater(D1, den1, D2, den2) ==
    LET lhs == BigTimes(BigTimes(BigOf(Max(D1, -D1)), BigOf(Max(D1, -D1))), BigOf(den2))
        rhs == BigTimes(BigTimes(BigOf(Max(D2, -D2)), BigOf(Max(D2, -D2))), BigOf(den1))
    IN  BigGreater(lhs, rhs, Len(lhs))

\* a comparison that also replaces the kept threshold on a tie
VarianceGreater_OrEqual(variance, maxVariance) ==
    IF maxVariance.D = 0 THEN TRUE
    ELSE IF variance = maxVariance THEN TRUE
         ELSE ~SquareOverGreater(maxVariance.D, maxVariance.den, variance.D, variance.den)

\* The between-class variance wB * wF * (mB - mF)^2 of line 793 is
\* (sumB * wF - (sum - sumB) * wB)^2 / (wB * wF): kept as [D, den].
\* variance > maxVariance (line 796)
VarianceGreater(variance, maxVariance) ==
    IF maxVariance.D = 0 THEN variance.D # 0
    ELSE IF variance = maxVariance THEN FALSE
         ELSE SquareOverGreater(variance.D, variance.den, maxVariance.D, maxVariance.den)

\* the loop body with variance >= maxVariance at line 796, for comparison
OtsuStep_TieReplaces(histogram, total, sum, i, st) ==
    IF st.done THEN st
    ELSE LET wB == st.wB + histogram[i]
             wF == total - wB
         IN  IF wB = 0
             THEN [st EXCEPT !.wB = wB]
             ELSE IF wF = 0
                  THEN [st EXCEPT !.wB = wB, !.done = TRUE]
                  ELSE LET sumB     == st.sumB + i * histogram[i]
                           variance == [D   |-> sumB * wF - (sum - sumB) * wB,
                                        den |-> wB * wF]
                       IN  IF VarianceGreater_OrEqual(variance, st.maxVariance)
                           THEN [st EXCEPT !.wB = wB, !.sumB = sumB,
                                           !.maxVariance = variance, !.threshold = i]
                           ELSE [st EXCEPT !.wB = wB, !.sumB = sumB]

\* the loop body with the level of the last populated bin taken as the
\* threshold at the break of line 785, for comparison
OtsuStep_BreakSetsLevel(histogram, total, sum, i, st) ==
    IF st.done THEN st
    ELSE LET wB == st.wB + histogram[i]
             wF == total - wB
         IN  IF wB = 0
             THEN [st EXCEPT !.wB = wB]
             ELSE IF wF = 0
                  THEN [st EXCEPT !.wB = wB, !.threshold = i, !.done = TRUE]
                  ELSE LET sumB     == st.sumB + i * histogram[i]
                           variance == [D   |-> sumB * wF - (sum - sumB) * wB,
                                        den |-> wB * wF]
                           greater  == IF variance = st.variance /\ ~st.greater
                                       THEN st.greater
                                       ELSE VarianceGreater(variance, st.maxVariance)
                       IN  IF greater
                           THEN [st EXCEPT !.wB = wB, !.sumB = sumB,
                                           !.variance = variance, !.greater = greater,
                                           !.maxVariance = variance, !.threshold = i]
                           ELSE [st EXCEPT !.wB = wB, !.sumB = sumB,
                                           !.variance = variance, !.greater = greater]

\* one pass of the loop body of lines 780-800 for the level i; `done` is set
\* by the break of line 785.  `variance` and `greater` are the operands and
\* the outcome of the comparison of the pass before: the same variance against
\* the same maximum (an empty bin) compares the same.
OtsuStep(histogram, total, sum, i, st) ==
    IF st.done THEN st
    ELSE LET wB == st.wB + histogram[i]
             wF == total - wB
         IN  IF wB = 0
             THEN [st EXCEPT !.wB = wB]
             ELSE IF wF = 0
                  THEN [st EXCEPT !.wB = wB, !.done = TRUE]
                  ELSE LET sumB     == st.sumB + i * histogram[i]
                           variance == [D   |-> sumB * wF - (sum - sumB) * wB,
                                        den |-> wB * wF]
                           greater  == IF variance = st.variance /\ ~st.greater
                                       THEN st.greater
                                       ELSE VarianceGreater(variance, st.maxVariance)
                       IN  IF greater
                           THEN [st EXCEPT !.wB = wB, !.sumB = sumB,
                                           !.variance = variance, !.greater = greater,
                                           !.maxVariance = variance, !.threshold = i]
                           ELSE [st EXCEPT !.wB = wB, !.sumB = sumB,
                                           !.variance = variance, !.greater = greater]

\* the passes for i = lo .. hi in order
RECURSIVE OtsuLoop(_, _, _, _, _, _)
OtsuLoop(histogram, total, sum, lo, hi, st) ==
    IF lo > hi THEN st
    ELSE IF lo = hi THEN OtsuStep(histogram, total, sum, lo, st)
         ELSE LET mid   == (lo + hi) \div 2
                  first == OtsuLoop(histogram, total, sum, lo, mid, st)
              IN  IF first.done THEN first
                  ELSE OtsuLoop(histogram, total, sum, mid + 1, hi, first)

\* the histogram of lines 762-766; levels are the values that occur
OtsuHistogram(grayArray, levels) ==
    [v \in 0 .. 255 |->
        IF v \in levels
        THEN Cardinality({ i \in 0 .. grayArray.width * grayArray.height - 1 :
                             grayArray.data[i] = v })
        ELSE 0]

\* calculateOtsuThreshold (lines 758-802)
calculateOtsuThreshold(grayArray) ==
    LET total     == grayArray.width * grayArray.height
        histogram == OtsuHistogram(grayArray,
                                   { grayArray.data[i] : i \in 0 .. total - 1 })
        sum       == SumRange([v \in 0 .. 255 |-> v * histogram[v]], 0, 255)
    IN  OtsuLoop(histogram, total, sum, 0, 255,
                 [wB |-> 0, sumB |-> 0, maxVariance |-> [D |-> 0, den |-> 1],
                  variance |-> [D |-> 0, den |-> 0], greater |-> FALSE,
                  threshold |-> 0, done |-> FALSE]).threshold

\* a binarization that keeps the pixels equal to the threshold
binarizeImage_GreaterEqual(grayArray, threshold) ==
    [grayArray EXCEPT !.data =
        [i \in 0 .. grayArray.width * grayArray.height - 1 |->
            IF grayArray.data[i] >= threshold THEN 255 ELSE 0]]

\* binarizeImage (lines 805-814)
binarizeImage(grayArray, threshold) ==
    [grayArray EXCEPT !.data =
        [i \in 0 .. grayArray.width * grayArray.height - 1 |->
            IF grayArray.data[i] > threshold THEN 255 ELSE 0]]

\* the 4-neighbourhood, for comparison
Neighbours_4(p, width, height) ==
    ({ (p \div width) * width + nx :
         nx \in Max(0, (p % width) - 1) .. Min(width - 1, (p % width) + 1) }
     \cup
     { ny * width + (p % width) :
         ny \in Max(0, (p \div width) - 1) .. Min(height - 1, (p \div width) + 1) }) \ { p }

\* the in-range 8-neighbours of pixel index p (lines 824-828, 859)
Neighbours(p, width, height) ==
    { ny * width + nx :
        nx \in Max(0, (p % width) - 1) .. Min(width - 1, (p % width) + 1),
        ny \in Max(0, (p \div width) - 1) .. Min(height - 1, (p \div width) + 1) } \ { p }

\* the breadth-first search of lines 841-868, one distance from the seed at a
\* time: `queue` holds the pixels marked and not yet shifted out, `visited` the
\* marked pixels of the whole image; every pixel shifted out is counted and
\* widens the box (lines 845-851)
RECURSIVE Bfs(_, _, _, _)
Bfs(binaryImage, visited, queue, comp) ==
    IF queue = {} THEN comp
    ELSE LET found  == { n \in UNION { Neighbours(p, binaryImage.width, binaryImage.height) :
                                        p \in queue } :
                           n \notin visited /\ binaryImage.data[n] = 255 }
             xs     == { p % binaryImage.width : p \in queue }
             ys     == { p \div binaryImage.width : p \in queue }
             popped == [minX |-> Min(comp.minX, -SetMax({ -x : x \in xs })),
                        maxX |-> Max(comp.maxX, SetMax(xs)),
                        minY |-> Min(comp.minY, -SetMax({ -y : y \in ys })),
                        maxY |-> Max(comp.maxY, SetMax(ys)),
                        area |-> comp.area + Cardinality(queue),
                        pixels |-> comp.pixels \cup queue]
         IN  IF popped.area > comp.area
             THEN Bfs(binaryImage, visited \cup found, found, popped)
             ELSE comp

\* lines 870-884 with w = maxX - minX, for comparison
ComponentOf_Exclusive(comp) ==
    [x |-> comp.minX, y |-> comp.minY,
     w |-> comp.maxX - comp.minX,
     h |-> comp.maxY - comp.minY,
     area |-> comp.area,
     pixels |-> comp.pixels]

\* lines 870-884: the record pushed for what the search has accumulated
ComponentOf(comp) ==
    [x |-> comp.minX, y |-> comp.minY,
     w |-> comp.maxX - comp.minX + 1,
     h |-> comp.maxY - comp.minY + 1,
     area |-> comp.area,
     pixels |-> comp.pixels]

\* the scan of lines 830-887 over the pixels not yet visited
RECURSIVE ScanComponents(_, _)
ScanComponents(binaryImage, visited) ==
    LET rest == { i \in 0 .. binaryImage.width * binaryImage.height - 1 :
                    i \notin visited /\ binaryImage.data[i] = 255 }
    IN  IF rest = {} THEN << >>
        ELSE LET idx  == -SetMax({ -i : i \in rest })
                 comp == Bfs(binaryImage, visited \cup { idx }, { idx },
                             [minX |-> idx % binaryImage.width,
                              maxX |-> idx % binaryImage.width,
                              minY |-> idx \div binaryImage.width,
                              maxY |-> idx \div binaryImage.width,
                              area |-> 0, pixels |-> {}])
             IN  << ComponentOf(comp) >>
                 \o ScanComponents(binaryImage, visited \cup comp.pixels)

\* findConnectedComponents (lines 817-890)
findConnectedComponents(binaryImage) == ScanComponents(binaryImage, {})

\* lines 1357-1362: avgBrightness > 120 as sum > 120 * length
ProcessedGray(grayImage) ==
    LET avgBrightness == calculateAverageBrightness(grayImage)
    IN  IF avgBrightness.sum > 120 * avgBrightness.length
        THEN invertBackground(grayImage)
        ELSE grayImage

\* stages 1-6 of the handwriting branch (lines 1352-1400)
HandwritingStages(imageData, isRealtime) ==
    LET grayImage     == Buffered(imageDataToGrayArray(imageData))
        processedGray == Buffered(ProcessedGray(grayImage))
        blurred       == Buffered(simpleGaussianBlur(processedGray))
        otsuThreshold == calculateOtsuThreshold(blurred)
        binaryImage   == Buffered(binarizeImage(blurred, otsuThreshold))
        components    == findConnectedComponents(binaryImage)
        filtered      == FilterSeq(components, isRealtime, FALSE,
                                   imageData.width, imageData.height)
    IN  [otsuThreshold |-> otsuThreshold,
         binaryImage   |-> binaryImage,
         foreground    |-> { i \in 0 .. imageData.width * imageData.height - 1 :
                               binaryImage.data[i] = 255 },
         components    |-> components,
         regions       |-> SortByX(filtered)]

\* the regions and their tiles, as the classification loop reads them
PixelPlan(stages) ==
    [regions |-> [k \in 1 .. Len(stages.regions) |->
                    [f \in { "x", "y", "w", "h", "area" } |-> stages.regions[k][f]]],
     tiles   |-> [k \in 1 .. Len(stages.regions) |->
                    Tiles(RoiData(stages.binaryImage, stages.regions[k]),
                          stages.regions[k], FALSE)]]

\* predict(false) with the camera off on the frame inp
PredictFrame ==
    /\ phase = "frame"
    /\ LET stages == HandwritingStages(ImageDataOf(inp), FALSE)
       IN  /\ predictWith(PixelPlan(stages), FALSE)
           /\ out' = [otsuThreshold |-> stages.otsuThreshold,
                      foreground    |-> stages.foreground,
                      components    |-> Len(stages.components),
                      regions       |-> Len(stages.regions)]
    /\ phase' = "predict"
    /\ UNCHANGED << model, loadPending, cameraStream, realtimeInterval, intervals,
                    pendingCam, isDrawing, strokeTimers, pendingUpload, canvas, inp >>

\* calculateOtsuThreshold on the gray array of the frame inp
ApplyOtsu ==
    /\ phase = "frame"
    /\ out' = [otsuThreshold |-> calculateOtsuThreshold(imageDataToGrayArray(ImageDataOf(inp)))]
    /\ phase' = "otsu"
    /\ UNCHANGED inp
    /\ UNCHANGED ctlVars

\* steps 3 and 4 of the handwriting branch (lines 1364-1369): blur, Otsu
\* threshold of the blurred image, binarize the blurred image
DenoiseBinarize(grayArray) ==
    LET blurred == simpleGaussianBlur(grayArray)
    IN  binarizeImage(blurred, calculateOtsuThreshold(blurred))

\* steps 3 and 4 on the gray array of the frame inp, and again on their result
ApplyDenoiseTwice ==
    /\ phase = "frame"
    /\ LET once == DenoiseBinarize(imageDataToGrayArray(ImageDataOf(inp)))
       IN  out' = [once |-> once.data, twice |-> DenoiseBinarize(once).data]
    /\ phase' = "twice"
    /\ UNCHANGED inp
    /\ UNCHANGED ctlVars

\* calculateOtsuThreshold on the blurred image (line 1366), which has more
\* than two gray levels
ApplyOtsuBlurred ==
    /\ phase = "frame"
    /\ out' = [otsuThreshold |->
                 calculateOtsuThreshold(
                     simpleGaussianBlur(imageDataToGrayArray(ImageDataOf(inp))))]
    /\ phase' = "otsuBlurred"
    /\ UNCHANGED inp
    /\ UNCHANGED ctlVars

\* binarizeImage on the gray array of the frame inp, with the Otsu threshold
\* of that array
ApplyBinarize ==
    /\ phase = "frame"
    /\ LET grayImage == Buffered(imageDataToGrayArray(ImageDataOf(inp)))
       IN  out' = [binary |-> binarizeImage(grayImage,
                                            calculateOtsuThreshold(grayImage)).data]
    /\ phase' = "binarize"
    /\ UNCHANGED inp
    /\ UNCHANGED ctlVars

----------------------------------------------------------------------------
(* The camera branch on pixels (lines 1233-1349) and what a realtime run   *)
(* leaves on the drawing canvas.  With the camera on, the canvas is         *)
(* transparent after clearCanvas (line 1705) and the snapshot is the video  *)
(* frame with the canvas drawn over it (lines 1219-1222).                   *)

\* the indices of the window of radius r around pixel i, clipped to the image
PixelWindow(i, r, width, height) ==
    { ny * width + nx :
        nx \in Max(0, (i % width) - r) .. Min(width - 1, (i % width) + r),
        ny \in Max(0, (i \div width) - r) .. Min(height - 1, (i \div width) + r) }

\* medianBlur (lines 1067-1096): values.sort(), values[floor(length / 2)]
medianBlur(grayArray, kernelSize) ==
    LET radius == kernelSize \div 2
        data   == grayArray.data
    IN  [grayArray EXCEPT !.data =
            [i \in 0 .. grayArray.width * grayArray.height - 1 |->
                LET win    == PixelWindow(i, radius, grayArray.width, grayArray.height)
                    levels == { data[j] : j \in win }
                    half   == Cardinality(win) \div 2
                IN  IF Cardinality(levels) = 1 THEN data[i]
                    ELSE CHOOSE v \in levels :
                           /\ Cardinality({ j \in win : data[j] < v }) <= half
                           /\ Cardinality({ j \in win : data[j] <= v }) > half]]

\* The sums of lines 1106-1118 over the window clipped to the image, formed
\* in two passes.  WindowRowSums.data[x * height + y] is the part of the sum
\* for pixel (x, y) that lies in row y; WindowSums.data[y * width + x] adds
\* these parts over the rows of the window.
WindowRowSums(grayArray, radius) ==
    [grayArray EXCEPT !.data =
        [j \in 0 .. grayArray.width * grayArray.height - 1 |->
            SumRange(grayArray.data,
                     (j % grayArray.height) * grayArray.width
                     + Max(0, (j \div grayArray.height) - radius),
                     (j % grayArray.height) * grayArray.width
                     + Min(grayArray.width - 1, (j \div grayArray.height) + radius))]]

WindowSums(rowSums, radius) ==
    [rowSums EXCEPT !.data =
        [i \in 0 .. rowSums.width * rowSums.height - 1 |->
            SumRange(rowSums.data,
                     (i % rowSums.width) * rowSums.height
                     + Max(0, (i \div rowSums.width) - radius),
                     (i % rowSums.width) * rowSums.height
                     + Min(rowSums.height - 1, (i \div rowSums.width) + radius))]]

\* lines 1124-1128 for the sums above: data > sum / count - C is compared as
\* data * count > sum - C * count; THRESH_BINARY_INV
AdaptiveCompare(grayArray, sums, radius, C) ==
    [grayArray EXCEPT !.data =
        [i \in 0 .. grayArray.width * grayArray.height - 1 |->
            LET count == (Min(grayArray.width - 1, (i % grayArray.width) + radius)
                          - Max(0, (i % grayArray.width) - radius) + 1)
                         * (Min(grayArray.height - 1, (i \div grayArray.width) + radius)
                            - Max(0, (i \div grayArray.width) - radius) + 1)
            IN  IF grayArray.data[i] * count > sums.data[i] - C * count THEN 0 ELSE 255]]

\* adaptiveThreshold (lines 1099-1134)
adaptiveThreshold(grayArray, blockSize, C) ==
    AdaptiveCompare(grayArray,
                    Buffered(WindowSums(Buffered(WindowRowSums(grayArray, blockSize \div 2)),
                                        blockSize \div 2)),
                    blockSize \div 2, C)

\* dilateBinary (lines 893-922)
dilateBinary(binaryImage, kernelSize) ==
    LET half == kernelSize \div 2
    IN  [binaryImage EXCEPT !.data =
            [i \in 0 .. binaryImage.width * binaryImage.height - 1 |->
                SetMax({ 0 } \cup { binaryImage.data[j] :
                           j \in PixelWindow(i, half, binaryImage.width,
                                             binaryImage.height) })]]

\* stages 1-7 of the camera branch (lines 1234-1290)
CameraStages(imageData) ==
    LET grayImage   == Buffered(imageDataToGrayArray(imageData))
        blurred     == Buffered(medianBlur(grayImage, 5))
        binaryImage == Buffered(adaptiveThreshold(blurred, 31, 12))
        dilated     == Buffered(dilateBinary(binaryImage, 2))
        components  == findConnectedComponents(dilated)
        found       == FilterSeq(components, TRUE, TRUE, imageData.width, imageData.height)
    IN  [binaryImage |-> dilated,
         components  |-> components,
         regions     |-> SortByX(found)]

\* the regions and their tiles, as the loop of lines 1293-1343 reads them
CameraPlan(stages) ==
    [regions |-> [k \in 1 .. Len(stages.regions) |->
                    [f \in { "x", "y", "w", "h", "area" } |-> stages.regions[k][f]]],
     tiles   |-> [k \in 1 .. Len(stages.regions) |->
                    Tiles(RoiData(stages.binaryImage, stages.regions[k]),
                          stages.regions[k], TRUE)]]

\* ctx.strokeRect(hotZoneLeft, hotZoneTop, ...) with lineWidth 1 (lines
\* 1346-1349) on a canvas whose sides are multiples of 5: the path runs on
\* pixel boundaries, so the stroke covers half of the pixel on either side of
\* an edge, a quarter and three quarters of the two pixels of a corner.  The
\* coverage of pixel (x, y), in quarters.
StrokeQuarters(x, y, width, height) ==
    LET hotZoneLeft   == (2 * width) \div 10
        hotZoneRight  == (8 * width) \div 10
        hotZoneTop    == (2 * height) \div 10
        hotZoneBottom == (8 * height) \div 10
        \* halves of [c, c + 1] inside [lo - 1/2, hi + 1/2]
        Outer(c, lo, hi) == IF c = lo - 1 \/ c = hi THEN 1
                            ELSE IF lo <= c /\ c < hi THEN 2 ELSE 0
        \* halves of [c, c + 1] inside [lo + 1/2, hi - 1/2]
        Inner(c, lo, hi) == IF c = lo \/ c = hi - 1 THEN 1
                            ELSE IF lo < c /\ c < hi - 1 THEN 2 ELSE 0
    IN  Outer(x, hotZoneLeft, hotZoneRight) * Outer(y, hotZoneTop, hotZoneBottom)
        - Inner(x, hotZoneLeft, hotZoneRight) * Inner(y, hotZoneTop, hotZoneBottom)

\* Every stroke is composited over what the canvas holds, so after n strokes
\* a pixel covered by q quarters is white with alpha 1 - ((4 - q) / 4)^n.
\* The 8-bit value a browser stores may be rounded down (0) or to nearest (1).
StrokeRoundings == { 0, 1 }

RECURSIVE Power(_, _)
Power(b, n) == IF n = 0 THEN 1 ELSE b * Power(b, n - 1)

\* the strokes the canvas holds
Strokes(marks) == IF marks = {} THEN 0 ELSE (CHOOSE mk \in marks : TRUE).strokes

\* the canvas after one more stroke
Stroked(marks) ==
    { { [mark |-> "hotZone", strokes |-> Strokes(marks) + 1, rounding |-> r] } :
        r \in StrokeRoundings }

\* lines 1213-1226: the video frame, the canvas drawn over it, getImageData
SnapshotOf(video, marks) ==
    LET base == ImageDataOf(video)
    IN  IF marks = {} THEN base
        ELSE LET m     == CHOOSE mk \in marks : TRUE
                 whole == Power(4, m.strokes)
             IN  [base EXCEPT !.data =
                    [k \in 0 .. 4 * base.width * base.height - 1 |->
                        IF k % 4 = 3 THEN 255
                        ELSE LET q == StrokeQuarters((k \div 4) % base.width,
                                                     (k \div 4) \div base.width,
                                                     base.width, base.height)
                             IN  (whole * base.data[k]
                                  + (255 - base.data[k]) * (whole - Power(4 - q, m.strokes))
                                  + m.rounding * (whole \div 2)) \div whole]]

\* the pixels of the snapshot that differ from the video frame
DrawnPixels(video, marks) ==
    IF marks = {} THEN {}
    ELSE { j \in 0 .. video.width * video.height - 1 :
             StrokeQuarters(j % video.width, j \div video.width,
                            video.width, video.height) > 0 }

\* video frames of one gray level; the sides are multiples of 5
VideoFrames ==
    { [width |-> 45, height |-> 45, bg |-> v, fg |-> v, rows |-> {}, cols |-> {},
       x0 |-> 0, x1 |-> -1, y0 |-> 0, y1 |-> -1] : v \in { 0, 100, 200 } }

\* the boxes of a plan's regions
RegionBoxes(plan) == [k \in 1 .. Len(plan.regions) |-> Box(plan.regions[k])]

\* The interval callback of line 1703 with the camera on: predict(true)
\* takes the camera branch.  When the loop has no region to classify the
\* stroke of lines 1346-1349 follows at once and no box is drawn (line 1561).
\* `out` is a history variable: the boxes of the regions found on the
\* snapshot, the drawn pixels of the snapshot and, from the start, the boxes
\* each branch finds on the video frame alone.
\* a call that the guard at line 1202 drops never reaches a plan
NoPlan == [regions |-> << >>, tiles |-> << >>]

TickOverlay ==
    /\ intervals > 0
    /\ nCalls < MaxCalls
    /\ IF GuardDrops
       THEN /\ predictWith(NoPlan, TRUE)
            /\ UNCHANGED << canvas, out, phase >>
       ELSE \E plan \in { CameraPlan(CameraStages(SnapshotOf(inp, canvas))) } :
              /\ predictWith(plan, TRUE)
              /\ out' = [out EXCEPT !.regions = RegionBoxes(plan),
                                    !.drawn = DrawnPixels(inp, canvas)]
              /\ canvas' \in IF Len(plan.regions) = 0 THEN Stroked(canvas)
                                                      ELSE { canvas }
              /\ phase' = "camera"
    /\ UNCHANGED << model, loadPending, cameraStream, realtimeInterval, intervals,
                    pendingCam, isDrawing, strokeTimers, pendingUpload, inp >>

\* the run button while the camera is on (isRealtime = false): the snapshot is
\* the same composite, the branch is the handwriting one
RunOverlay ==
    /\ nCalls < MaxCalls
    /\ IF GuardDrops
       THEN /\ predictWith(NoPlan, FALSE)
            /\ UNCHANGED << out, phase >>
       ELSE \E plan \in { PixelPlan(HandwritingStages(SnapshotOf(inp, canvas), FALSE)) } :
              /\ predictWith(plan, FALSE)
              /\ out' = [out EXCEPT !.regions = RegionBoxes(plan),
                                    !.drawn = DrawnPixels(inp, canvas)]
              /\ phase' = "handwriting"
    /\ UNCHANGED << model, loadPending, cameraStream, realtimeInterval, intervals,
                    pendingCam, isDrawing, strokeTimers, pendingUpload, canvas, inp >>

\* what each branch finds on the video frame alone, the canvas transparent
FrameOnly(video) ==
    [camera      |-> RegionBoxes(CameraPlan(CameraStages(SnapshotOf(video, {})))),
     handwriting |-> RegionBoxes(PixelPlan(HandwritingStages(SnapshotOf(video, {}), FALSE)))]

----------------------------------------------------------------------------
(* Claims about predict *)

\* order of two regions in filteredComponents: ascending x, ties in the
\* order the labeler found them
RegionOrder(a, b) == a.x < b.x \/ (a.x = b.x /\ ScansBefore(a, b))

OrderedRegions(regions) ==
    \A i, j \in 1 .. Len(regions) : i < j => RegionOrder(regions[i], regions[j])

OrderedBoxes(boxes) ==
    \A i, j \in 1 .. Len(boxes) : i < j => boxes[i].x <= boxes[j].x

\* the digits follow the regions, and the halves of a split region come
\* left half first
OrderedDetails(finalResult, details) ==
    /\ Len(finalResult) = Len(details)
    /\ \A i \in 1 .. Len(details) : finalResult[i] = details[i].digit
    /\ \A i, j \in 1 .. Len(details) : i < j =>
          \/ RegionOrder(details[i].from, details[j].from)
          \/ details[i].from = details[j].from /\ details[i].sub < details[j].sub

\* C1: the regions of a frame are processed in ascending x (ties in
\* discovery order), and the digit string and the boxes follow that order,
\* in every run and in every returned result.
C1_LeftToRight ==
    /\ \A i \in 1 .. Len(runs) :
          /\ OrderedRegions(runs[i].regions)
          /\ OrderedBoxes(runs[i].validBoxes)
          /\ OrderedDetails(runs[i].finalResult, runs[i].details)
    /\ ret.kind = "result" =>
          /\ OrderedBoxes(ret.boxes)
          /\ OrderedDetails(ret.full_digit, ret.details)

\* C1 witness: a result with both halves of a split region followed by the
\* digit of an ordinary region that the labeler found first.
C1_Witness ==
    /\ ret.kind = "result"
    /\ Len(ret.details) = 3
    /\ ret.details[1].sub = 1 /\ ret.details[2].sub = 2 /\ ret.details[3].sub = 0
    /\ ScansBefore(ret.details[3].from, ret.details[1].from)
    /\ Len(ret.boxes) = 1

\* C3: at most one predict invocation is past the guard, and a call made
\* while one is in flight returns undefined and starts nothing.
C3_OneInFlight ==
    /\ [](Len(runs) <= 1)
    /\ [][(nCalls' # nCalls /\ Len(runs) > 0) =>
             (runs' = runs /\ ret' = Undefined /\ isProcessing' = isProcessing)]_vars

\* C3 witness: a call was dropped while a run was awaiting the classifier
C3_Witness ==
    /\ Len(runs) = 1
    /\ isProcessing
    /\ ret = Undefined
    /\ nCalls >= 2

\* C4: details and boxes of a returned result are index-aligned: details[i]
\* was classified from the region whose box is boxes[i].
C4_IndexAligned ==
    ret.kind = "result" =>
        /\ Len(ret.details) = Len(ret.boxes)
        /\ \A i \in 1 .. Len(ret.boxes) : ret.details[i].from = ret.boxes[i]

\* C5: a call made while no model is loaded ends in the error outcome.
C5_ModelNullIsError ==
    [][(nCalls' # nCalls /\ ~model) => ret'.kind = "error"]_vars

\* C6: a run never ends with a tile of its frame left unclassified, whether
\* a classification threw or not.
C6_FailureIsLocal ==
    ret.kind \in { "result", "error" } => ret.nTried = ret.nTiles

\* the sub-regions the code cuts a region of the canvas into
CanvasSubRegions(comp) == SubRegions(RoiData(FrameBinary(canvas), comp), comp)

\* C10: in the handwriting branch a region is cut into sub-regions exactly
\* when w > 1.3 h; the two sub-regions are [0, splitX) and [splitX, w), of
\* widths >= 0 that sum to w; any other region is one tile of its full width.
C10_SplitRule ==
    \A i \in 1 .. Len(runs) :
        ~runs[i].cam =>
            \A k \in 1 .. Len(runs[i].regions) :
                LET comp  == runs[i].regions[k]
                    tiles == runs[i].tiles[k]
                    subs  == CanvasSubRegions(comp)
                IN  IF 10 * comp.w > 13 * comp.h
                    THEN /\ \A t \in 1 .. Len(tiles) : ~tiles[t].whole
                         /\ subs[1].x = 0 /\ subs[2].x = subs[1].w
                         /\ subs[1].w >= 0 /\ subs[2].w >= 0
                         /\ subs[1].w + subs[2].w = comp.w
                         /\ \A t \in 1 .. Len(tiles) :
                               /\ tiles[t].x = subs[tiles[t].sub].x
                               /\ tiles[t].w = subs[tiles[t].sub].w
                    ELSE /\ Len(tiles) = 1
                         /\ tiles[1].whole /\ tiles[1].x = 0 /\ tiles[1].w = comp.w

\* C10 witness: a run over a split region (cut inside the band), and a
\* region with w = 1.3 h exactly that is not split
C10_Witness ==
    \E i \in 1 .. Len(runs) :
        /\ ~runs[i].cam
        /\ Len(runs[i].regions) = 2
        /\ Len(runs[i].tiles[1]) = 2
        /\ runs[i].tiles[1][1].w = 7 /\ runs[i].tiles[1][2].w = 9
        /\ 10 * runs[i].regions[2].w = 13 * runs[i].regions[2].h
        /\ runs[i].tiles[2][1].whole

----------------------------------------------------------------------------
(* The tile normalizers applied to the ROIs of TileRois *)

CtlIdle ==
    /\ model = TRUE
    /\ loadPending = FALSE
    /\ isProcessing = FALSE
    /\ cameraStream = FALSE
    /\ realtimeInterval = FALSE
    /\ intervals = 0
    /\ pendingCam = 0
    /\ isDrawing = FALSE
    /\ strokeTimers = 0
    /\ pendingUpload = 0
    /\ canvas = {}
    /\ runs = << >>
    /\ ret = NoReturn
    /\ nCalls = 0

InitTile ==
    /\ CtlIdle
    /\ inp \in TileRois
    /\ out = NoPure
    /\ phase = "roi"

NextTile ==
    \/ ApplyAdvanced
    \/ ApplyPythonStyle

SpecTile == InitTile /\ [][NextTile]_vars

\* C2: every tile handed to the classifier has 28 x 28 = 784 entries, each
\* in [0, 1], in the handwriting branch and in the camera branch.
C2_TileRange ==
    phase \in { "advanced", "python" } =>
        /\ DOMAIN out.data = 0 .. 783
        /\ \A i \in DOMAIN out.data : 0 <= out.data[i] /\ out.data[i] <= out.den

\* C9: the tile advancedPreprocess returns for a ROI with foreground has
\* nonzero mass and its centroid is within 1 pixel of 14 on both axes.
C9_CentroidNear14 ==
    (phase = "advanced" /\ HasForeground(inp)) =>
        LET m == calculateImageMoments(out.data)
        IN  /\ m.m00 > 0
            /\ m.m10 - 14 * m.m00 <= m.m00 /\ 14 * m.m00 - m.m10 <= m.m00
            /\ m.m01 - 14 * m.m00 <= m.m00 /\ 14 * m.m00 - m.m01 <= m.m00

----------------------------------------------------------------------------
(* The handwriting branch and the Otsu threshold on the frames of PixelFrames *)

InitPixel ==
    /\ CtlIdle
    /\ inp \in PixelFrames
    /\ out = NoPure
    /\ phase = "frame"

NextPixel ==
    \/ PredictFrame
    \/ ApplyOtsu
    \/ ApplyDenoiseTwice
    \/ ApplyOtsuBlurred
    \/ ApplyBinarize
    \/ \E i \in 1 .. Len(runs) : Classify(i)

SpecPixel == InitPixel /\ [][NextPixel]_vars

GrayLevels ==
    UNION { { grayImage.data[i] : i \in 0 .. inp.width * inp.height - 1 } :
            grayImage \in { Buffered(imageDataToGrayArray(ImageDataOf(inp))) } }

\* C7: for an all-black frame the handwriting stages leave no foreground
\* pixel, no component and no region, and predict returns the no-digit
\* result (empty digit string, details and boxes), not an error.
C7_AllBlackNoDigit ==
    (phase = "predict" /\ GrayLevels = { 0 }) =>
        /\ out.foreground = {}
        /\ out.components = 0
        /\ out.regions = 0
        /\ ret.kind = "result"
        /\ ret.full_digit = << >> /\ ret.details = << >> /\ ret.boxes = << >>
        /\ runs = << >>
        /\ ~isProcessing

C7_Witness ==
    /\ phase = "predict"
    /\ GrayLevels = { 0 }
    /\ inp.width = 32 /\ inp.height = 32
    /\ ret.kind = "result"

\* C8 as stated: with two populated gray values a < b the threshold t is
\* strictly between them, a < t < b.
C8_StrictlyBetween ==
    (phase = "otsu" /\ Cardinality(GrayLevels) = 2) =>
        /\ \E a \in GrayLevels : a < out.otsuThreshold
        /\ \E b \in GrayLevels : out.otsuThreshold < b

\* C8 as the code has it: with two populated gray values a < b the threshold
\* is the lower value itself, t = a, so a <= t < b.
C8_LowerValue ==
    (phase = "otsu" /\ Cardinality(GrayLevels) = 2) =>
        /\ out.otsuThreshold \in GrayLevels
        /\ \A v \in GrayLevels : out.otsuThreshold <= v

C8_Witness ==
    /\ phase = "otsu"
    /\ GrayLevels = { 50, 200 }
    /\ inp.width * inp.height = 1000
    /\ out.otsuThreshold = 50

\* C11: for a mask M with values in {0, 255}, blur + Otsu + binarize applied
\* to its own result changes no pixel: P(P(M)) = P(M).
C11_Idempotent ==
    (phase = "twice" /\ GrayLevels \subseteq { 0, 255 }) => out.twice = out.once

----------------------------------------------------------------------------
(* predict(false) on a frame of one glyph, with a stub in place of the model *)

OneGlyphFrames == { { MakeGlyph(p, k) } : p \in GlyphPositions, k \in GlyphKinds }

InitStub ==
    /\ model = TRUE
    /\ loadPending = FALSE
    /\ isProcessing = FALSE
    /\ cameraStream = FALSE
    /\ realtimeInterval = FALSE
    /\ intervals = 0
    /\ pendingCam = 0
    /\ isDrawing = FALSE
    /\ strokeTimers = 0
    /\ pendingUpload = 0
    /\ canvas \in OneGlyphFrames
    /\ runs = << >>
    /\ ret = NoReturn
    /\ nCalls = MaxCalls - 1
    /\ inp \in { [stub |-> d] : d \in Classes }
    /\ out = NoPure
    /\ phase = "stub"

NextStub ==
    \/ RunButton
    \/ \E i \in 1 .. Len(runs) : ClassifyStub(i)

SpecStub == InitStub /\ [][NextStub]_vars

\* C12: with a stub that gives the label d the probability 1, predict(false)
\* on a frame of one glyph that passes the region filter returns a string of
\* d only, one d per classified tile, and exactly one d for an unsplit region.
C12_StubRoundTrip ==
    (ret.kind = "result" /\ Len(Regions(canvas, FALSE, FALSE)) = 1) =>
        /\ \A k \in 1 .. Len(ret.full_digit) : ret.full_digit[k] = inp.stub
        /\ Len(ret.full_digit) = ret.nTried
        /\ ret.nTried = ret.nTiles
        /\ ~IsSplit(Regions(canvas, FALSE, FALSE)[1]) => ret.full_digit = << inp.stub >>

\* C12 witness: the stub's label 7 comes back once for each half of a split
\* region
C12_Witness ==
    /\ ret.kind = "result"
    /\ Len(Regions(canvas, FALSE, FALSE)) = 1
    /\ IsSplit(Regions(canvas, FALSE, FALSE)[1])
    /\ inp.stub = 7
    /\ ret.full_digit = << 7, 7 >>

----------------------------------------------------------------------------
(* Realtime runs and run-button runs on one video frame, the camera on *)

InitOverlay ==
    /\ model = TRUE
    /\ loadPending = FALSE
    /\ isProcessing = FALSE
    /\ cameraStream = TRUE
    /\ realtimeInterval = TRUE
    /\ intervals = 1
    /\ pendingCam = 0
    /\ isDrawing = FALSE
    /\ strokeTimers = 0
    /\ pendingUpload = 0
    /\ canvas = {}
    /\ runs = << >>
    /\ ret = NoReturn
    /\ nCalls = MaxCalls - 2
    /\ inp \in VideoFrames
    /\ out = [frameOnly |-> FrameOnly(inp), regions |-> << >>, drawn |-> {}]
    /\ phase = "video"

NextOverlay ==
    \/ TickOverlay
    \/ RunOverlay
    \/ \E i \in 1 .. Len(runs) : Classify(i)

SpecOverlay == InitOverlay /\ [][NextOverlay]_vars

\* C13: what a run analyses is the captured camera frame only: no pixel of
\* its snapshot comes from what earlier runs drew on the canvas, and the
\* regions it finds are those of the video frame alone.
C13_Stateless ==
    phase \in { "camera", "handwriting" } =>
        /\ out.drawn = {}
        /\ out.regions = out.frameOnly[phase]


-----------------------------------------------------------------------------
(* predict on a frame, with what the classifier returned for the last tile *)

\* model.predict and prediction.data() for one tile (lines 1317-1318,
\* 1478-1479, 1504-1505); `out` keeps the scores of the last classified tile
ClassifyTraced(i) ==
    /\ i \in 1 .. Len(runs)
    /\ \E res \in ClassifierResults :
         /\ ClassifyResult(i, res)
         /\ out' = [n |-> out.n + 1, run |-> i, cam |-> runs[i].cam,
                    throws |-> res.throws, scores |-> res.scores]
    /\ phase' = "classified"
    /\ UNCHANGED inp

InitClassify ==
    /\ model = TRUE
    /\ loadPending = FALSE
    /\ isProcessing = FALSE
    /\ cameraStream \in BOOLEAN
    /\ realtimeInterval = cameraStream
    /\ intervals = IF cameraStream THEN 1 ELSE 0
    /\ pendingCam = 0
    /\ isDrawing = FALSE
    /\ strokeTimers = 0
    /\ pendingUpload = 0
    /\ canvas \in Frames
    /\ runs = << >>
    /\ ret = NoReturn
    /\ nCalls = MaxCalls - 1
    /\ inp = NoPure
    /\ out = [n |-> 0, run |-> 0, cam |-> FALSE, throws |-> FALSE,
              scores |-> ScoresOf(0, 0)]
    /\ phase = "none"

NextClassify ==
    \/ Tick
    \/ RunButton
    \/ \E i \in 1 .. Len(runs) : ClassifyTraced(i)

SpecClassify == InitClassify /\ [][NextClassify]_vars

\* what a run has collected so far, and what it returned when it is over
CollectedBy(r) ==
    [finalResult |-> r.finalResult, details |-> r.details, validBoxes |-> r.validBoxes]
Returned ==
    [finalResult |-> ret.full_digit, details |-> ret.details, validBoxes |-> ret.boxes]

\* C14: for every tile the classifier answered, if the greatest score is
\* strictly above the floor (0.8, or 0.93 in a realtime camera run) one label
\* is appended whose score is that greatest score, with that score as its
\* confidence, and at most one box; otherwise the string, the details and the
\* boxes are left as they were.
C14_ArgmaxAndFloor ==
    [][(out'.n = out.n + 1 /\ ~out'.throws) =>
          LET r      == runs[out'.run]
              scores == out'.scores
              before == CollectedBy(r)
              after  == IF Len(runs') < Len(runs) THEN Returned'
                        ELSE CollectedBy(runs'[out'.run])
              n      == Len(before.details)
          IN  IF \E k \in Classes : scores[k] > (IF r.cam THEN 930 ELSE 800)
              THEN \E d \in Classes :
                     /\ \A k \in Classes : scores[k] <= scores[d]
                     /\ after.finalResult = Append(before.finalResult, d)
                     /\ Len(after.details) = n + 1
                     /\ SubSeq(after.details, 1, n) = before.details
                     /\ after.details[n + 1].digit = d
                     /\ after.details[n + 1].conf = scores[d]
                     /\ \/ after.validBoxes = before.validBoxes
                        \/ after.validBoxes = Append(before.validBoxes, Box(r.regions[r.ci]))
              ELSE after = before]_vars

\* C14 witness: a realtime camera run is over with two tiles classified, the
\* last one exactly at the floor 0.93, and one digit returned.
C14_Witness ==
    /\ phase = "classified"
    /\ out.n = 2 /\ out.cam /\ ~out.throws
    /\ MathMax(out.scores) = 930
    /\ ret.kind = "result"
    /\ Len(ret.details) = 1
    /\ Len(ret.boxes) = 1


-----------------------------------------------------------------------------
(* findConnectedComponents on every small mask *)

LabelSide == 3

\* every mask of up to LabelSide x LabelSide pixels, and of 3 * LabelSide
\* pixels at most, with the values 0 and 255
LabelMasks ==
    UNION { IF w * h <= 3 * LabelSide
            THEN { [data |-> d, width |-> w, height |-> h] :
                     d \in [0 .. w * h - 1 -> { 0, 255 }] }
            ELSE {} :
            w \in 1 .. LabelSide, h \in 1 .. LabelSide }

InitLabel ==
    /\ CtlIdle
    /\ inp \in LabelMasks
    /\ out = NoPure
    /\ phase = "mask"

Label ==
    /\ phase = "mask"
    /\ out' = findConnectedComponents(inp)
    /\ phase' = "labelled"
    /\ UNCHANGED inp
    /\ UNCHANGED ctlVars

SpecLabel == InitLabel /\ [][Label]_vars

\* two different pixels that touch by a side or a corner
Adjacent8(p, q, width) ==
    /\ p # q
    /\ (p % width) - (q % width) \in -1 .. 1
    /\ (p \div width) - (q \div width) \in -1 .. 1

\* the pixels joined to a pixel of `chain` by a chain of adjacent pixels of
\* `foreground`
RECURSIVE Chained(_, _, _)
Chained(chain, foreground, width) ==
    LET more == { q \in foreground \ chain : \E p \in chain : Adjacent8(p, q, width) }
    IN  IF more = {} THEN chain ELSE Chained(chain \cup more, foreground, width)

\* C15: the components partition the foreground, and the component of a
\* foreground pixel is the set of foreground pixels chained to it through
\* 8-neighbour adjacency.
C15_Partition ==
    phase = "labelled" =>
        LET foreground == { i \in 0 .. inp.width * inp.height - 1 : inp.data[i] = 255 }
        IN  /\ \A k \in 1 .. Len(out) : out[k].pixels \subseteq foreground
            /\ \A p \in foreground :
                  /\ Cardinality({ k \in 1 .. Len(out) : p \in out[k].pixels }) = 1
                  /\ \A k \in 1 .. Len(out) :
                        p \in out[k].pixels =>
                            out[k].pixels = Chained({ p }, foreground, inp.width)

\* C15 witness: two pixels that touch by a corner only are one component, and
\* a third pixel apart from them is another.
C15_Witness ==
    /\ phase = "labelled"
    /\ inp.width = 3 /\ inp.height = 3
    /\ { i \in 0 .. 8 : inp.data[i] = 255 } = { 1, 3, 8 }
    /\ Len(out) = 2
    /\ out[1].pixels = { 1, 3 }

\* C16: the box of a component is the smallest rectangle that holds its
\* pixels (each side touches one), its area is the number of its pixels, and
\* 1 <= area <= w * h.
C16_BoundingBox ==
    phase = "labelled" =>
        \A k \in 1 .. Len(out) :
            LET c  == out[k]
                xs == { p % inp.width : p \in c.pixels }
                ys == { p \div inp.width : p \in c.pixels }
            IN  /\ xs \subseteq c.x .. c.x + c.w - 1
                /\ ys \subseteq c.y .. c.y + c.h - 1
                /\ c.x \in xs /\ c.x + c.w - 1 \in xs
                /\ c.y \in ys /\ c.y + c.h - 1 \in ys
                /\ c.area = Cardinality(c.pixels)
                /\ 1 <= c.area /\ c.area <= c.w * c.h

\* C16 witness: a component that does not fill its box, wider than high, found
\* after another component.
C16_Witness ==
    /\ phase = "labelled"
    /\ Len(out) = 2
    /\ out[2].w = 3 /\ out[2].h = 2 /\ out[2].area = 4
    /\ out[2].x = 0 /\ out[2].y = 1


-----------------------------------------------------------------------------
(* the region filter of the handwriting branch on one component *)

\* components at the bounds of the filter: aspect ratios 0.15 (3/20, 6/40) and
\* 2.5 (50/20) and their neighbours, areas around 150, 500 and 1000, solidity
\* 0.15 (300 of 50x40, 504 of 70x48) and just below, boxes at, next to and
\* away from the margin of each edge
FilterComponents ==
    { [x |-> x, y |-> y, w |-> w, h |-> h, area |-> area] :
        w \in { 3, 5, 6, 20, 25, 40, 50, 51, 70 },
        h \in { 20, 21, 25, 34, 40, 48 },
        area \in { 149, 150, 151, 299, 300, 499, 500, 501, 503, 504, 999, 1000, 1001 },
        x \in { 0, border - 1, border, 12, CanvasW - border - 3, CanvasW - border - 20,
                CanvasW - border - 19, CanvasW - border - 40, CanvasW - border - 39 },
        y \in { 0, border - 1, border, CanvasH - border - 20, CanvasH - border - 19,
                CanvasH - border - 40, CanvasH - border - 39 } }

FilterInputs ==
    { [comp |-> c, isRealtime |-> b] :
        c \in { c \in FilterComponents :
                  /\ c.x + c.w <= CanvasW /\ c.y + c.h <= CanvasH
                  /\ Max(c.w, c.h) <= c.area /\ c.area <= c.w * c.h },
        b \in BOOLEAN }

InitFilter ==
    /\ CtlIdle
    /\ inp \in FilterInputs
    /\ out = NoPure
    /\ phase = "component"

\* the loop of lines 1378-1397 on a list of one component
ApplyFilter ==
    /\ phase = "component"
    /\ out' = FilterSeq(<< inp.comp >>, inp.isRealtime, FALSE, CanvasW, CanvasH)
    /\ phase' = "filtered"
    /\ UNCHANGED inp
    /\ UNCHANGED ctlVars

SpecFilter == InitFilter /\ [][ApplyFilter]_vars

\* the box comes within 8 pixels of an edge of the image
NearBorder(comp) ==
    \/ comp.x < 8
    \/ comp.y < 8
    \/ comp.x + comp.w > CanvasW - 8
    \/ comp.y + comp.h > CanvasH - 8

\* area >= minArea, 0.15 <= w / h <= 2.5 and area / (w * h) >= 0.15
MeetsBounds(comp, isRealtime) ==
    /\ comp.area >= (IF isRealtime THEN 500 ELSE 150)
    /\ 3 * comp.h <= 20 * comp.w
    /\ 2 * comp.w <= 5 * comp.h
    /\ 3 * comp.w * comp.h <= 20 * comp.area

\* C17: a component away from the border is kept exactly when it meets the
\* three inclusive bounds, and no component that fails one of them is kept.
C17_FilterBounds ==
    phase = "filtered" =>
        /\ ~NearBorder(inp.comp) =>
              (out = << inp.comp >> <=> MeetsBounds(inp.comp, inp.isRealtime))
        /\ out # << >> => out = << inp.comp >> /\ MeetsBounds(inp.comp, inp.isRealtime)

\* C17 witness: a component kept with every bound met with equality: area 150
\* = minArea, w / h = 50 / 20 = 2.5, solidity 150 / 1000 = 0.15.
C17_Witness ==
    /\ phase = "filtered"
    /\ ~inp.isRealtime /\ ~NearBorder(inp.comp)
    /\ inp.comp.area = 150 /\ inp.comp.w = 50 /\ inp.comp.h = 20
    /\ out = << inp.comp >>

\* C18: a component that meets the bounds and whose box comes within 8
\* pixels of an edge is kept only if its area is above 1000: an area of
\* exactly 1000 is rejected.
C18_BorderRule ==
    (phase = "filtered" /\ NearBorder(inp.comp)) =>
        (out = << inp.comp >> =>
            /\ MeetsBounds(inp.comp, inp.isRealtime)
            /\ inp.comp.area > 1000)


-----------------------------------------------------------------------------
(* calculateOtsuThreshold against the between-class variance of each split *)

\* the between-class variance wB * wF * (mB - mF)^2 of the split data <= t,
\* from the pixels: (sumB * wF - sumF * wB)^2 / (wB * wF), kept as [D, den]
VarianceAt(grayArray, t) ==
    LET total == grayArray.width * grayArray.height
        wB    == Cardinality({ i \in 0 .. total - 1 : grayArray.data[i] <= t })
        sumB  == SumRange([i \in 0 .. total - 1 |->
                             IF grayArray.data[i] <= t THEN grayArray.data[i] ELSE 0],
                          0, total - 1)
        sum   == SumRange(grayArray.data, 0, total - 1)
    IN  [D |-> sumB * (total - wB) - (sum - sumB) * wB, den |-> wB * (total - wB)]

\* the candidates with wB > 0 and wF > 0 are the levels t from the lowest
\* populated one up to the one before the highest; two candidates with the
\* same pixels at or below them are the same split, and the smallest
\* candidate of a split is a populated level.  threshold is the smallest
\* candidate of maximal variance: a populated level whose split no split
\* exceeds and every earlier split is strictly below.
SmallestMaximum(grayArray, levels, threshold) ==
    LET candidates == levels \ { SetMax(levels) }
        kept       == VarianceAt(grayArray, threshold)
    IN  candidates # {} =>
            /\ threshold \in candidates
            /\ \A t \in candidates :
                  LET variance == VarianceAt(grayArray, t)
                  IN  /\ ~SquareOverGreater(variance.D, variance.den, kept.D, kept.den)
                      /\ t < threshold =>
                            SquareOverGreater(kept.D, kept.den, variance.D, variance.den)

BlurredLevels == { simpleGaussianBlur(imageDataToGrayArray(ImageDataOf(inp))).data[i] :
                     i \in 0 .. inp.width * inp.height - 1 }

-----------------------------------------------------------------------------
(* the split of a wide region: projection, split column, sub-regions *)

\* widths and heights of regions that are split (w > 1.3 h) and can pass the
\* region filter (w * h >= 150, w <= 2.5 h); 15 is the least such width
SplitShapes == { << 15, 11 >>, << 16, 12 >>, << 17, 13 >>, << 20, 10 >> }

\* ROIs whose columns are filled from the top: full columns, but for two
\* columns c1 <= c2 holding v1 and v2 foreground pixels
SplitRois ==
    UNION { { [w |-> sh[1], h |-> sh[2], c1 |-> c1, v1 |-> v1, c2 |-> c2, v2 |-> v2] :
                c1 \in 0 .. sh[1] - 1, c2 \in 0 .. sh[1] - 1,
                v1 \in { 1, 2, sh[2] }, v2 \in { 1, 2, sh[2] } } :
            sh \in SplitShapes }

ColumnCount(roi, x) ==
    IF x = roi.c2 THEN roi.v2 ELSE IF x = roi.c1 THEN roi.v1 ELSE roi.h

\* roiData of such a ROI (lines 1405-1420)
SplitRoiData(roi) ==
    [data   |-> [i \in 0 .. roi.w * roi.h - 1 |->
                    IF i \div roi.w < ColumnCount(roi, i % roi.w) THEN 255 ELSE 0],
     width  |-> roi.w,
     height |-> roi.h]

\* the component of the ROI, away from the border of the canvas
SplitComponent(roi) ==
    [x |-> border, y |-> border, w |-> roi.w, h |-> roi.h,
     area |-> Cardinality({ i \in 0 .. roi.w * roi.h - 1 : SplitRoiData(roi).data[i] = 255 })]

InitSplit ==
    /\ CtlIdle
    /\ inp \in { roi \in SplitRois : roi.c1 <= roi.c2 }
    /\ out = NoPure
    /\ phase = "roi"

\* lines 1423-1455: the split point, the sub-regions and which of them the
\* loop goes on to classify
ApplySplit ==
    /\ phase = "roi"
    /\ out' = [subRegions |-> SubRegions(SplitRoiData(inp), SplitComponent(inp)),
               tiles      |-> Tiles(SplitRoiData(inp), SplitComponent(inp), FALSE)]
    /\ phase' = "split"
    /\ UNCHANGED inp
    /\ UNCHANGED ctlVars

SpecSplit == InitSplit /\ [][ApplySplit]_vars

-----------------------------------------------------------------------------
(* The ROI of a region whose bounding box holds another component *)

\* side of the binary masks
RoiSide == 40

\* a ring 24 x 24 of thickness t with its corner at (border, border) and a
\* filled block gw x gh at (gx, gy) in its opening, not touching the ring;
\* gw = 0 is the ring alone
RoiMasks ==
    { m \in [t : { 3, 4 }, gx : 13 .. 17, gy : 13 .. 17,
             g : { << 0, 0 >>, << 2, 2 >>, << 4, 6 >>, << 13, 12 >> }] :
        /\ m.gx + m.g[1] - 1 <= border + 24 - m.t - 2
        /\ m.gy + m.g[2] - 1 <= border + 24 - m.t - 2
        /\ m.g[1] = 0 => (m.gx = 13 /\ m.gy = 13) }

RoiMaskAt(m, x, y) ==
    LET inRing  == /\ x >= border /\ x < border + 24 /\ y >= border /\ y < border + 24
                   /\ ~( /\ x >= border + m.t /\ x < border + 24 - m.t
                         /\ y >= border + m.t /\ y < border + 24 - m.t )
        inBlock == /\ x >= m.gx /\ x < m.gx + m.g[1]
                   /\ y >= m.gy /\ y < m.gy + m.g[2]
    IN  inRing \/ inBlock

\* binaryImage of the mask
RoiMaskBinary(m) ==
    Buffered([data   |-> [i \in 0 .. RoiSide * RoiSide - 1 |->
                            IF RoiMaskAt(m, i % RoiSide, i \div RoiSide) THEN 255 ELSE 0],
              width  |-> RoiSide,
              height |-> RoiSide])

\* filteredComponents of the mask after the sort (lines 1371-1400)
RoiRegions(binaryImage) ==
    SortByX(FilterSeq(findConnectedComponents(binaryImage), FALSE, FALSE,
                      binaryImage.width, binaryImage.height))

InitRoi ==
    /\ CtlIdle
    /\ inp \in RoiMasks
    /\ out = NoPure
    /\ phase = "mask"

\* one pass of the loop of line 1403 up to the split: roiData of lines
\* 1405-1420 for the k-th region and its projection (lines 1425-1433)
ExtractRoi(k) ==
    /\ phase = "mask"
    /\ \E binaryImage \in { RoiMaskBinary(inp) } :
         \E regions \in { RoiRegions(binaryImage) } :
            /\ k \in 1 .. Len(regions)
            /\ \E roiData \in { RoiData(binaryImage, regions[k]) } :
                 out' = [comp       |-> regions[k],
                         others     |-> { i \in 0 .. RoiSide * RoiSide - 1 :
                                            binaryImage.data[i] = 255 } \ regions[k].pixels,
                         roiData    |-> roiData,
                         projection |-> Projection(roiData, regions[k])]
    /\ phase' = "roi"
    /\ UNCHANGED inp
    /\ UNCHANGED ctlVars

NextRoi == \E k \in 1 .. 2 : ExtractRoi(k)

SpecRoi == InitRoi /\ [][NextRoi]_vars

\* the pixels of the image that are foreground in the ROI
RoiForeground(roiData, comp) ==
    { (comp.y + (i \div comp.w)) * RoiSide + comp.x + (i % comp.w) :
        i \in { j \in 0 .. comp.w * comp.h - 1 : roiData.data[j] = 255 } }

\* C21: the foreground of the ROI of a region is exactly the pixels of the
\* region's component (a pixel of another component inside the bounding box
\* is background in the ROI), and the projection counts only those pixels.
C21_RoiIsComponent ==
    phase = "roi" =>
        /\ RoiForeground(out.roiData, out.comp) = out.comp.pixels
        /\ \A x \in 0 .. out.comp.w - 1 :
              out.projection[x] =
                 Cardinality({ p \in out.comp.pixels : p % RoiSide = out.comp.x + x })

-----------------------------------------------------------------------------
(* The centroid correction of advancedPreprocess as one translation *)

\* the integers nearest to 14 - m1 / m00: the d with |d - (14 - m1 / m00)| <= 1/2
NearestShifts(m00, m1) ==
    { d \in -targetSize .. targetSize :
        /\ 2 * (d * m00 - (14 * m00 - m1)) <= m00
        /\ 2 * ((14 * m00 - m1) - d * m00) <= m00 }

\* every pixel (x, y) of the tile holds the source pixel (x - dx, y - dy), and
\* 0 when that lies outside the tile
TranslatedBy(tile, scaledData, dx, dy) ==
    \A x, y \in 0 .. targetSize - 1 :
        tile[y * targetSize + x] =
            IF /\ x - dx >= 0 /\ x - dx < targetSize
               /\ y - dy >= 0 /\ y - dy < targetSize
            THEN scaledData[(y - dy) * targetSize + (x - dx)]
            ELSE 0

\* C22: the tile advancedPreprocess returns is the resized tile moved by one
\* integer translation (dx, dy), an integer nearest to (14 - cx, 14 - cy), the
\* same for every pixel, with 0 where the source lies outside the tile; with
\* m00 = 0 it is the resized tile over 255, not moved.
C22_OneTranslation ==
    phase = "advanced" =>
        \E scaledData \in { ScaledData(RoiImage(inp)) } :
          \E moments \in { calculateImageMoments(scaledData) } :
            /\ out.den = 255
            /\ IF moments.m00 = 0
               THEN out.data = scaledData
               ELSE \E dx \in NearestShifts(moments.m00, moments.m10),
                       dy \in NearestShifts(moments.m00, moments.m01) :
                       TranslatedBy(out.data, scaledData, dx, dy)

\* C22 witness: a tile moved by three columns and no row, its foreground with
\* it: column 6 of the resized tile is found in column 9
C22_Witness ==
    /\ phase = "advanced"
    /\ \E scaledData \in { ScaledData(RoiImage(inp)) } :
         \E moments \in { calculateImageMoments(scaledData) } :
            /\ moments.m00 # 0
            /\ NearestShifts(moments.m00, moments.m10) = { 3 }
            /\ TranslatedBy(out.data, scaledData, 3, 0)
            /\ scaledData[14 * targetSize + 6] = 255
            /\ out.data[14 * targetSize + 6] = 0
            /\ out.data[14 * targetSize + 9] = 255

-----------------------------------------------------------------------------
(* The polarity decision on a gray buffer and on its negative *)

\* pixels of a buffer
PolarityLen == 2

PolarityLevels == { 0, 105, 120, 121, 134, 135, 150, 255 }

\* gray arrays of one row
PolarityBuffers ==
    { [data |-> d, width |-> PolarityLen, height |-> 1] :
        d \in [0 .. PolarityLen - 1 -> PolarityLevels] }

InitPolarity ==
    /\ CtlIdle
    /\ inp \in PolarityBuffers
    /\ out = NoPure
    /\ phase = "gray"

\* lines 1357-1362 on the buffer and on its negative
NormalizePolarity ==
    /\ phase = "gray"
    /\ out' = [own      |-> ProcessedGray(inp).data,
               negative |-> ProcessedGray(invertBackground(inp)).data]
    /\ phase' = "polarity"
    /\ UNCHANGED inp
    /\ UNCHANGED ctlVars

SpecPolarity == InitPolarity /\ [][NormalizePolarity]_vars

\* C23: the polarity rule gives a gray buffer and its negative the same
\* output buffer, whatever the mean.
C23_NegativeConverges ==
    phase = "polarity" => out.own = out.negative

-----------------------------------------------------------------------------
(* findDigitBoxes of the first script (unnamed/part_000, lines 170-205) *)

\* canvas.width and canvas.height of the images searched
BoxSide == 40

\* one solid bright rectangle on a dark canvas
BlobImages ==
    { [x |-> x, y |-> y, w |-> w, h |-> h] :
        x \in { 0, 1, 3, 6 }, y \in { 0, 2, 5 },
        w \in { 3, 6, 12, 32 }, h \in { 3, 6, 12, 32 } }

\* data[idx * 4] > 100 at pixel (x, y)
Bright(img, x, y) ==
    /\ x >= img.x /\ x < img.x + img.w
    /\ y >= img.y /\ y < img.y + img.h

\* neighbors = [[cx+8, cy], [cx-8, cy], [cx, cy+8], [cx, cy-8]] inside the image
DigitNeighbours(p) ==
    { q \in { << p[1] + 8, p[2] >>, << p[1] - 8, p[2] >>,
              << p[1], p[2] + 8 >>, << p[1], p[2] - 8 >> } :
        q[1] >= 0 /\ q[1] < BoxSide /\ q[2] >= 0 /\ q[2] < BoxSide }

\* the while loop over the queue, one distance from the seed at a time:
\* the pixels marked visited from the seed
RECURSIVE DigitBfs(_, _, _)
DigitBfs(img, visited, queue) ==
    IF queue = {} THEN visited
    ELSE LET found == { q \in UNION { DigitNeighbours(p) : p \in queue } :
                          q \notin visited /\ Bright(img, q[1], q[2]) }
         IN  IF Cardinality(found) = 0 THEN visited
             ELSE DigitBfs(img, visited \cup found, found)

\* boxes.push({ x: minX, y: minY, w: maxX - minX + 1, h: maxY - minY + 1,
\*              area: count * 16 })
DigitBox(pixels) ==
    LET xs == { p[1] : p \in pixels }
        ys == { p[2] : p \in pixels }
        minX == -SetMax({ -v : v \in xs })
        minY == -SetMax({ -v : v \in ys })
    IN  [x |-> minX, y |-> minY, w |-> SetMax(xs) - minX + 1, h |-> SetMax(ys) - minY + 1,
         area |-> Cardinality(pixels) * 16]

\* the two for loops (y += 4, x += 4) from the first seed not yet visited on
RECURSIVE DigitScan(_, _)
DigitScan(img, visited) ==
    LET seeds == { s \in { << 4 * i, 4 * j >> : i \in 0 .. (BoxSide - 1) \div 4,
                                                 j \in 0 .. (BoxSide - 1) \div 4 } :
                     s \notin visited /\ Bright(img, s[1], s[2]) }
    IN  IF seeds = {} THEN << >>
        ELSE LET seed   == CHOOSE s \in seeds :
                              \A r \in seeds : s[2] < r[2] \/ (s[2] = r[2] /\ s[1] <= r[1])
                 pixels == DigitBfs(img, { seed }, { seed })
             IN  << DigitBox(pixels) >> \o DigitScan(img, visited \cup pixels)

\* findDigitBoxes: boxes.sort((a, b) => a.x - b.x)
findDigitBoxes(img) == SortByX(DigitScan(img, {}))

\* the filter of predict in that script (lines 92-96), the camera off
PassesBoxFilter(box) ==
    /\ ~(box.area < 150)
    /\ ~(2 * box.w > 5 * box.h \/ 20 * box.w < 3 * box.h)

InitBoxes ==
    /\ CtlIdle
    /\ inp \in BlobImages
    /\ out = NoPure
    /\ phase = "image"

\* predict of that script up to the classification: the boxes found and the
\* boxes that go on to advancedPreprocess and model.predict
FindBoxes ==
    /\ phase = "image"
    /\ \E boxes \in { findDigitBoxes(inp) } :
         out' = [boxes      |-> boxes,
                 classified |-> SelectSeq(boxes, PassesBoxFilter)]
    /\ phase' = "boxes"
    /\ UNCHANGED inp
    /\ UNCHANGED ctlVars

SpecBoxes == InitBoxes /\ [][FindBoxes]_vars

\* C24: for an image with one solid connected blob larger than the sampling
\* stride findDigitBoxes returns exactly one box, so predict classifies the
\* blob at most once.
C24_OneBoxPerBlob ==
    (phase = "boxes" /\ inp.w > 4 /\ inp.h > 4) =>
        /\ Len(out.boxes) = 1
        /\ Len(out.classified) <= 1

-----------------------------------------------------------------------------
(* The busy flag over the runs of predict *)

\* C25: isProcessing is set exactly while a run of predict is between its
\* guard and its return; a run that ends, by its return or by its catch,
\* leaves the flag cleared; and a call made with the flag cleared and the
\* model loaded is not dropped.
C25_FlagReleased ==
    /\ [](isProcessing <=> Len(runs) > 0)
    /\ [][Len(runs') < Len(runs) =>
             (~isProcessing' /\ ret'.kind \in { "result", "error" })]_vars
    /\ [][(nCalls' # nCalls /\ ~isProcessing /\ model) => ret' # Undefined]_vars

\* C25 witness: a run ended in the catch, after a classification had
\* succeeded, and the flag is cleared
C25_Witness ==
    /\ ret.kind = "error"
    /\ ret.nTried = 2
    /\ ~isProcessing
    /\ runs = << >>

-----------------------------------------------------------------------------
(* Strokes on the canvas with the camera off, and the runs that serve them *)

\* `phase` is a history variable: "unserved" from the end of a stroke until a
\* snapshot is taken (line 1226), "snapped" while the run of that snapshot is
\* in flight, "served" once a run whose snapshot followed the stroke has
\* returned.  Every call of predict is counted in nCalls: a handler that will
\* lead to a call leaves room for the calls already scheduled.  The canvas
\* keeps its frame, so every snapshot yields the same regions and tiles: `inp`
\* holds them.
AfterCall ==
    IF phase = "unserved" /\ ~GuardDrops
    THEN IF NextRegion(inp.tiles, 1) <= Len(inp.regions)
         THEN "snapped"
         ELSE "served"
    ELSE phase

\* the run has no tile left to classify after the one it awaits
LastTile(r) ==
    /\ ~(r.ti < Len(r.tiles[r.ci]))
    /\ NextRegion(r.tiles, r.ci + 1) > Len(r.regions)

InitStroke ==
    /\ model = TRUE
    /\ loadPending = FALSE
    /\ isProcessing = FALSE
    /\ cameraStream = FALSE
    /\ realtimeInterval = FALSE
    /\ intervals = 0
    /\ pendingCam = 0
    /\ isDrawing = FALSE
    /\ strokeTimers = 0
    /\ pendingUpload = 0
    /\ canvas \in SmallFrames
    /\ runs = << >>
    /\ ret = NoReturn
    /\ nCalls = 0
    /\ inp = PlanOf(canvas, FALSE, FALSE)
    /\ out = NoPure
    /\ phase = "idle"

\* startDrawing (lines 2011-2021)
StrokeStart ==
    /\ ~isDrawing
    /\ isDrawing' = TRUE
    /\ UNCHANGED << model, loadPending, isProcessing, cameraStream, realtimeInterval,
                    intervals, pendingCam, strokeTimers, pendingUpload, canvas,
                    runs, ret, nCalls, inp, out, phase >>

\* stopDrawing (lines 2040-2048), the camera off: setTimeout(predict, 300)
StrokeStop ==
    /\ isDrawing
    /\ ~cameraStream
    /\ strokeTimers < MaxPending
    /\ nCalls + strokeTimers < MaxCalls
    /\ isDrawing' = FALSE
    /\ strokeTimers' = strokeTimers + 1
    /\ phase' = "unserved"
    /\ UNCHANGED << model, loadPending, isProcessing, cameraStream, realtimeInterval,
                    intervals, pendingCam, pendingUpload, canvas, runs, ret, nCalls,
                    inp, out >>

\* the timeout callback of line 2045
StrokeFire ==
    /\ strokeTimers > 0
    /\ strokeTimers' = strokeTimers - 1
    /\ predictWith(inp, FALSE)
    /\ phase' = AfterCall
    /\ UNCHANGED << model, loadPending, cameraStream, realtimeInterval, intervals,
                    pendingCam, isDrawing, pendingUpload, canvas, inp, out >>

\* the click handler of .btn-run (line 2084)
StrokeRun ==
    /\ nCalls + strokeTimers < MaxCalls
    /\ predictWith(inp, FALSE)
    /\ phase' = AfterCall
    /\ UNCHANGED << model, loadPending, cameraStream, realtimeInterval, intervals,
                    pendingCam, isDrawing, strokeTimers, pendingUpload, canvas, inp, out >>

\* the classification a run awaits settles (lines 1479, 1505)
StrokeClassify(i) ==
    /\ i \in 1 .. Len(runs)
    /\ \E res \in ClassifierResults :
         /\ ClassifyResult(i, res)
         /\ phase' = IF phase = "snapped" /\ (res.throws \/ LastTile(runs[i]))
                     THEN "served"
                     ELSE phase
    /\ UNCHANGED << inp, out >>

NextStroke ==
    \/ StrokeStart
    \/ StrokeStop
    \/ StrokeFire
    \/ StrokeRun
    \/ \E i \in 1 .. Len(runs) : StrokeClassify(i)

\* The event loop runs a timeout callback that is due, and the promise of
\* prediction.data() settles; the user is free to do nothing more.
SpecStroke ==
    /\ InitStroke
    /\ [][NextStroke]_vars
    /\ WF_vars(StrokeFire)
    /\ WF_vars(\E i \in 1 .. Len(runs) : StrokeClassify(i))

\* C26: whenever a stroke has ended with the camera off, a run of predict
\* whose snapshot was taken after the end of that stroke eventually returns.
C26_StrokeServed == (phase = "unserved") ~> (phase = "served")

-----------------------------------------------------------------------------
(* The camera button pressed again while getUserMedia is pending *)

\* calls of getUserMedia that may be pending at once
CamPending == 2

InitCamera ==
    /\ model = TRUE
    /\ loadPending = FALSE
    /\ isProcessing = FALSE
    /\ cameraStream = FALSE
    /\ realtimeInterval = FALSE
    /\ intervals = 0
    /\ pendingCam = 0
    /\ isDrawing = FALSE
    /\ strokeTimers = 0
    /\ pendingUpload = 0
    /\ canvas \in SmallFrames
    /\ runs = << >>
    /\ ret = NoReturn
    /\ nCalls = 0
    /\ PureIdle

\* toggleCamera up to its await (lines 1677-1691): with cameraStream null
\* every call goes on to getUserMedia
CamToggle ==
    /\ IF cameraStream
       THEN stopCamera /\ UNCHANGED pendingCam
       ELSE /\ pendingCam < CamPending
            /\ pendingCam' = pendingCam + 1
            /\ UNCHANGED << cameraStream, realtimeInterval, intervals, loadPending >>
    /\ UNCHANGED << model, isProcessing, isDrawing, strokeTimers, pendingUpload,
                    canvas, runs, ret, nCalls >>
    /\ UNCHANGED pureVars

\* toggleCamera after getUserMedia resolved (lines 1684-1705): cameraStream
\* and realtimeInterval are overwritten, the timer the old handle named is
\* not cleared
CamResolve ==
    /\ pendingCam > 0
    /\ intervals <= CamPending
    /\ pendingCam' = pendingCam - 1
    /\ cameraStream' = TRUE
    /\ realtimeInterval' = TRUE
    /\ intervals' = intervals + 1
    /\ canvas' \in SmallFrames
    /\ UNCHANGED << model, loadPending, isProcessing, isDrawing, strokeTimers,
                    pendingUpload, runs, ret, nCalls >>
    /\ UNCHANGED pureVars

NextCamera ==
    \/ CamToggle
    \/ CamResolve
    \/ GetUserMediaReject
    \/ LoadModelResolve
    \/ LoadModelReject
    \/ Tick
    \/ \E i \in 1 .. Len(runs) : Classify(i)

SpecCamera == InitCamera /\ [][NextCamera]_vars

\* C27: at most one interval timer of the realtime loop is active, and none
\* while cameraStream is null, so that predict(true) is not called after
\* stopCamera until the camera is on again.
C27_OneInterval ==
    /\ intervals <= 1
    /\ ~cameraStream => intervals = 0

-----------------------------------------------------------------------------
(* Voice input: initSpeechRecognition (lines 1801-1929) and toggleVoice
   (lines 1944-1992).  The state is kept in out:
     isVoiceActive  the global of line 525
     retryCount     the counter of line 1815
     state          the recognition object: "idle", "starting" (start() was
                    called, onstart has not fired), "running", "stopping"
                    (stop() was called, onend has not fired), "ending" (an
                    error was reported, onend has not fired)
     timers         restart callbacks of line 1839 that are pending
     micPending     getUserMedia({ audio: true }) promises not settled
     restarts       recognition.start() calls of line 1842 that succeeded
                    since the last click of the button or speech result *)

\* const MAX_RETRIES = 3
MAX_RETRIES == 3

\* most restart callbacks, and most permission requests, pending at once
VoicePending == 2

\* restarts are counted up to this number
MaxRestarts == 5

\* event.error of recognition.onerror: the two cases that close voice input,
\* the two named cases that do not, and one that takes the default case
VoiceErrors ==
    { "not-allowed", "audio-capture", "network", "no-speech",
      "service-not-allowed" }

InitVoice ==
    /\ CtlIdle
    /\ inp = NoPure
    /\ out = [isVoiceActive |-> FALSE, retryCount |-> 0, state |-> "idle",
              timers |-> 0, micPending |-> 0, restarts |-> 0]
    /\ phase = "voice"

\* toggleVoice with recognition set: the button closes voice input and calls
\* recognition.stop(), or asks for the microphone
toggleVoice ==
    /\ phase = "voice"
    /\ IF out.isVoiceActive
       THEN out' = [out EXCEPT
                      !.isVoiceActive = FALSE,
                      !.state = IF @ \in { "starting", "running" }
                                THEN "stopping" ELSE @,
                      !.restarts = 0]
       ELSE /\ out.micPending < VoicePending
            /\ out' = [out EXCEPT !.micPending = @ + 1, !.restarts = 0]
    /\ UNCHANGED <<inp, phase>>
    /\ UNCHANGED ctlVars

\* .then of lines 1970-1980: isVoiceActive = true, recognition.start(); a
\* recognition that is not idle throws InvalidStateError, which the .catch of
\* lines 1981-1986 receives
MicGranted ==
    /\ phase = "voice"
    /\ out.micPending > 0
    /\ out' = IF out.state = "idle"
              THEN [out EXCEPT !.micPending = @ - 1,
                               !.isVoiceActive = TRUE,
                               !.state = "starting"]
              ELSE [out EXCEPT !.micPending = @ - 1,
                               !.isVoiceActive = FALSE]
    /\ UNCHANGED <<inp, phase>>
    /\ UNCHANGED ctlVars

\* .catch of lines 1981-1986 after getUserMedia rejected
MicDenied ==
    /\ phase = "voice"
    /\ out.micPending > 0
    /\ out' = [out EXCEPT !.micPending = @ - 1, !.isVoiceActive = FALSE]
    /\ UNCHANGED <<inp, phase>>
    /\ UNCHANGED ctlVars

\* recognition.onstart
OnStart ==
    /\ phase = "voice"
    /\ out.state = "starting"
    /\ out' = [out EXCEPT !.state = "running",
                          !.isVoiceActive = TRUE,
                          !.retryCount = 0]
    /\ UNCHANGED <<inp, phase>>
    /\ UNCHANGED ctlVars

\* recognition.onerror; the browser ends the session after an error
OnError(error) ==
    /\ phase = "voice"
    /\ out.state \in { "starting", "running" }
    /\ out' = [out EXCEPT
                 !.state = "ending",
                 !.isVoiceActive =
                     IF error \in { "not-allowed", "audio-capture" }
                     THEN FALSE ELSE @]
    /\ UNCHANGED <<inp, phase>>
    /\ UNCHANGED ctlVars

\* recognition.onend: the session ended by itself, after stop() or after an
\* error
OnEnd ==
    /\ phase = "voice"
    /\ out.state \in { "running", "stopping", "ending" }
    /\ IF out.isVoiceActive /\ out.retryCount < MAX_RETRIES
       THEN /\ out.timers < VoicePending
            /\ out' = [out EXCEPT !.state = "idle",
                                  !.retryCount = @ + 1,
                                  !.timers = @ + 1]
       ELSE out' = [out EXCEPT !.state = "idle"]
    /\ UNCHANGED <<inp, phase>>
    /\ UNCHANGED ctlVars

\* recognition.onresult with a transcript of the last two branches (digits,
\* or a text that is no command): retryCount = 0 and a change of the display
OnResult ==
    /\ phase = "voice"
    /\ out.state = "running"
    /\ out' = [out EXCEPT !.retryCount = 0, !.restarts = 0]
    /\ UNCHANGED <<inp, phase>>
    /\ UNCHANGED ctlVars

\* The callback of lines 1839-1871.  recognition.start() on an idle
\* recognition starts it (throws = FALSE) or throws an error that is not
\* InvalidStateError (throws = TRUE); on a recognition that is not idle it
\* throws InvalidStateError, which the catch ignores.
RestartTimer(throws) ==
    /\ phase = "voice"
    /\ out.timers > 0
    /\ IF ~out.isVoiceActive \/ out.state # "idle"
       THEN /\ ~throws
            /\ out' = [out EXCEPT !.timers = @ - 1]
       ELSE IF throws
            THEN out' = [out EXCEPT
                           !.timers = @ - 1,
                           !.isVoiceActive =
                               IF out.retryCount >= MAX_RETRIES
                               THEN FALSE ELSE @]
            ELSE /\ out.restarts < MaxRestarts
                 /\ out' = [out EXCEPT !.timers = @ - 1,
                                       !.state = "starting",
                                       !.restarts = @ + 1]
    /\ UNCHANGED <<inp, phase>>
    /\ UNCHANGED ctlVars

NextVoice ==
    \/ toggleVoice
    \/ MicGranted
    \/ MicDenied
    \/ OnStart
    \/ \E error \in VoiceErrors : OnError(error)
    \/ OnEnd
    \/ OnResult
    \/ \E throws \in BOOLEAN : RestartTimer(throws)

SpecVoice == InitVoice /\ [][NextVoice]_vars

\* C28: whenever isVoiceActive is true, recognition is being started, is
\* running or has not reported its end yet, or a restart callback is pending.
C28_ActiveMeansListening ==
    (phase = "voice" /\ out.isVoiceActive) =>
        (out.state # "idle" \/ out.timers > 0)

\* C29: between two clicks of the button or speech results, at most
\* MAX_RETRIES calls of recognition.start() are made by the restart callback.
C29_RestartsBounded ==
    phase = "voice" => out.restarts <= MAX_RETRIES

-----------------------------------------------------------------------------
(* Frames of one gray level (lines 758-814 and 1364-1372) *)

\* the component that covers a frame passes the region filter of lines
\* 1380-1397: area, aspect ratio, and area again as it touches the border
WholeFramePasses ==
    /\ inp.width * inp.height >= 1000
    /\ ~(2 * inp.width > 5 * inp.height \/ 20 * inp.width < 3 * inp.height)

\* C30: for a frame of one gray level v the Otsu threshold is 0; the mask of
\* binarizeImage is all 0 for v = 0 and all 255 for v > 0; and predict on such
\* a frame with 1 <= v <= 120 finds one component that covers the frame,
\* which is the one region wherever a component of that size passes the
\* filter.
C30_UniformFrame ==
    /\ (phase = "otsu" /\ Cardinality(GrayLevels) = 1) => out.otsuThreshold = 0
    /\ (phase = "binarize" /\ Cardinality(GrayLevels) = 1) =>
           { out.binary[i] : i \in 0 .. inp.width * inp.height - 1 }
               = IF GrayLevels = { 0 } THEN { 0 } ELSE { 255 }
    /\ (phase = "predict" /\ Cardinality(GrayLevels) = 1
                          /\ GrayLevels \subseteq 1 .. 120) =>
           /\ out.otsuThreshold = 0
           /\ out.foreground = 0 .. inp.width * inp.height - 1
           /\ out.components = 1
           /\ WholeFramePasses => out.regions = 1

\* a frame of 40 x 26 pixels at level 120 became one region
C30_Witness ==
    /\ phase = "predict"
    /\ GrayLevels = { 120 }
    /\ inp.width = 40 /\ inp.height = 26
    /\ out.otsuThreshold = 0
    /\ out.components = 1
    /\ out.regions = 1

====
